---- MODULE Spec2Model ----
(***************************************************************************)
(* Game Boy CPU core: timer, interrupt controller, memory bus and the      *)
(* CPU step loop (interrupt dispatch, HALT, HALT bug, EI).                  *)
(*                                                                         *)
(* Option<T> values are sequences of length at most one: <<>> is None and  *)
(* <<x>> is Some(x).  The 64 KiB memory array is kept as the function from *)
(* the addresses holding a non-zero byte to that byte (absent = 0x00).     *)
(***************************************************************************)
EXTENDS Integers, Sequences, FiniteSets, TLC

VARIABLES
    registers,            \* CPU.registers (a, b, c, d, e, f, h, l, sp, pc)
    bus,                  \* CPU.bus (memory, gpu, timer, interrupts, serial_output)
    is_halted,            \* CPU.is_halted
    interrupts_enabled,   \* CPU.interrupts_enabled (IME)
    ei_pending,           \* CPU.ei_pending
    halt_bug,             \* CPU.halt_bug
    panicked,             \* step() ended in panic!(): the CPU is gone
    op,                   \* name of the last operation called
    path,                 \* way the last step() returned
    instruction,          \* Option<Instruction> decoded by the last step()
    cycles,               \* value returned by the last step()
    interrupt,            \* value returned by the last Timer::tick()
    halt_bug_active,      \* step()'s local halt_bug_active in the last step()
    woken,                \* the last step() cleared a set is_halted
    scen,                 \* ticks since an overflow on a bit-3 falling edge, <<>> if none
    held,                 \* value of a TIMA write that cancelled a reload, ticks since
    written,              \* argument passed to the last write or request
    returned,             \* <<value>> returned by the last query, <<>> if none
    steps,                \* number of step() calls made
    ticks,                \* number of tick_timer() calls made
    writes                \* number of bus writes made by the driver

vars == <<registers, bus, is_halted, interrupts_enabled, ei_pending, halt_bug,
          panicked, op, path, instruction, halt_bug_active, woken, cycles,
          interrupt, scen, held, written, returned, steps, ticks, writes>>

cpuVars == <<registers, is_halted, interrupts_enabled, ei_pending, halt_bug,
             panicked, path, instruction, halt_bug_active, woken, cycles, steps>>

----
\* Bounds of the exploration

MaxSteps == 4
MaxTicks == 10
MaxWrites == 4

----
\* Machine arithmetic

Byte == 0..255

RECURSIVE BitAnd(_, _)
BitAnd(x, y) ==
    IF x = 0 \/ y = 0 THEN 0
    ELSE (x % 2) * (y % 2) + 2 * BitAnd(x \div 2, y \div 2)

RECURSIVE BitOr(_, _)
BitOr(x, y) ==
    IF x = 0 THEN y
    ELSE IF y = 0 THEN x
    ELSE (IF x % 2 = 1 \/ y % 2 = 1 THEN 1 ELSE 0) + 2 * BitOr(x \div 2, y \div 2)

Not8(x) == 255 - x

wrapping_add16(x, n) == (x + n) % 65536

wrapping_sub16(x, n) == (x + 65536 - n) % 65536

Some(x) == <<x>>

None == <<>>

----
\* timer.rs

TIMA_OVERFLOW_RELOAD_DELAY == 4

Timer_new ==
    [div |-> 0, tima |-> 0, tma |-> 0, tac |-> 0,
     prev_timer_bit |-> FALSE, overflow_delay |-> None]

get_timer_bit_position(t) ==
    CASE BitAnd(t.tac, 3) = 0 -> 9
      [] BitAnd(t.tac, 3) = 1 -> 3
      [] BitAnd(t.tac, 3) = 2 -> 5
      [] BitAnd(t.tac, 3) = 3 -> 7

is_timer_enabled(t) == BitAnd(t.tac, 4) # 0

calculate_timer_bit(t) ==
    IF ~is_timer_enabled(t) THEN FALSE
    ELSE ((t.div \div (2 ^ get_timer_bit_position(t))) % 2) # 0

update_overflow_delay_early(t) ==
    IF t.overflow_delay # None
    THEN IF t.overflow_delay[1] <= 2
         THEN [timer |-> [t EXCEPT !.tima = t.tma, !.overflow_delay = None],
               interrupt |-> TRUE]
         ELSE [timer |-> [t EXCEPT !.overflow_delay = Some(t.overflow_delay[1] - 1)],
               interrupt |-> FALSE]
    ELSE [timer |-> t, interrupt |-> FALSE]

update_overflow_delay_from_zero(t) ==
    IF t.overflow_delay # None
    THEN IF t.overflow_delay[1] = 0
         THEN [timer |-> [t EXCEPT !.tima = t.tma, !.overflow_delay = None],
               interrupt |-> TRUE]
         ELSE [timer |-> [t EXCEPT !.overflow_delay = Some(t.overflow_delay[1] - 1)],
               interrupt |-> FALSE]
    ELSE [timer |-> t, interrupt |-> FALSE]

update_overflow_delay(t) ==
    IF t.overflow_delay # None
    THEN IF t.overflow_delay[1] = 1
         THEN [timer |-> [t EXCEPT !.tima = t.tma, !.overflow_delay = None],
               interrupt |-> TRUE]
         ELSE [timer |-> [t EXCEPT !.overflow_delay = Some(t.overflow_delay[1] - 1)],
               interrupt |-> FALSE]
    ELSE [timer |-> t, interrupt |-> FALSE]

increment_tima(t) ==
    IF t.tima + 1 > 255
    THEN [t EXCEPT !.tima = 0, !.overflow_delay = Some(TIMA_OVERFLOW_RELOAD_DELAY)]
    ELSE [t EXCEPT !.tima = t.tima + 1]

handle_falling_edge_and_update_prev_level(t, new_bit) ==
    [(IF ~new_bit THEN increment_tima(t) ELSE t) EXCEPT !.prev_timer_bit = new_bit]

handle_falling_edge_and_update_prev(t, new_bit) ==
    [(IF t.prev_timer_bit /\ ~new_bit THEN increment_tima(t) ELSE t)
        EXCEPT !.prev_timer_bit = new_bit]

tick_edge_first(t) ==
    LET t1 == [t EXCEPT !.div = (t.div + 1) % 65536]
        t2 == handle_falling_edge_and_update_prev(t1, calculate_timer_bit(t1))
        r  == update_overflow_delay(t2)
    IN  [timer |-> r.timer, interrupt |-> r.interrupt]

tick(t) ==
    LET t1 == [t EXCEPT !.div = (t.div + 1) % 65536]
        r  == update_overflow_delay(t1)
        t2 == r.timer
    IN  [timer |-> handle_falling_edge_and_update_prev(t2, calculate_timer_bit(t2)),
         interrupt |-> r.interrupt]

read_div(t) == t.div \div 256

read_tac(t) == BitOr(t.tac, 248)

write_div_no_edge(t) == [t EXCEPT !.div = 0, !.prev_timer_bit = FALSE]

write_div(t) ==
    LET t1 == [t EXCEPT !.div = 0]
    IN  handle_falling_edge_and_update_prev(t1, calculate_timer_bit(t1))

write_tima_keep(t, value) == [t EXCEPT !.tima = value]

write_tima(t, value) ==
    [t EXCEPT !.tima = value, !.overflow_delay = None]

write_tma(t, value) == [t EXCEPT !.tma = value]

write_tac_unmasked(t, value) ==
    LET t1 == [t EXCEPT !.tac = value]
    IN  handle_falling_edge_and_update_prev(t1, calculate_timer_bit(t1))

write_tac(t, value) ==
    LET t1 == [t EXCEPT !.tac = BitAnd(value, 7)]
    IN  handle_falling_edge_and_update_prev(t1, calculate_timer_bit(t1))

Timer_read(t, addr) ==
    CASE addr = 65284 -> read_div(t)
      [] addr = 65285 -> t.tima
      [] addr = 65286 -> t.tma
      [] addr = 65287 -> read_tac(t)
      [] OTHER -> 255

Timer_write(t, addr, value) ==
    CASE addr = 65284 -> write_div(t)
      [] addr = 65285 -> write_tima(t, value)
      [] addr = 65286 -> write_tma(t, value)
      [] addr = 65287 -> write_tac(t, value)
      [] OTHER -> t

----
\* interrupts.rs

VBlank == 0
LcdStat == 1
TimerInt == 2
Serial == 3
Joypad == 4

Interrupt_ALL == <<VBlank, LcdStat, TimerInt, Serial, Joypad>>

INTERRUPT_CYCLES == 20

bit_mask(i) == 2 ^ i

handler_address(i) ==
    CASE i = VBlank -> 64
      [] i = LcdStat -> 72
      [] i = TimerInt -> 80
      [] i = Serial -> 88
      [] i = Joypad -> 96

InterruptController_new == [interrupt_flag |-> 224, interrupt_enable |-> 0]

read_if(ic) == BitOr(ic.interrupt_flag, 224)

write_if_unmasked(ic, value) == [ic EXCEPT !.interrupt_flag = value]

write_if(ic, value) == [ic EXCEPT !.interrupt_flag = BitOr(BitAnd(value, 31), 224)]

read_ie(ic) == ic.interrupt_enable

write_ie(ic, value) == [ic EXCEPT !.interrupt_enable = value]

request_interrupt(ic, i) ==
    [ic EXCEPT !.interrupt_flag = BitOr(ic.interrupt_flag, bit_mask(i))]

acknowledge_interrupt_all(ic, i) == [ic EXCEPT !.interrupt_flag = 224]

acknowledge_interrupt(ic, i) ==
    [ic EXCEPT !.interrupt_flag = BitAnd(ic.interrupt_flag, Not8(bit_mask(i)))]

any_interrupt_pending_unmasked(ic) == BitAnd(ic.interrupt_flag, 31) # 0

any_interrupt_pending(ic) ==
    BitAnd(BitAnd(ic.interrupt_flag, ic.interrupt_enable), 31) # 0

RECURSIVE first_pending(_, _)
first_pending(pending, k) ==
    IF k > Len(Interrupt_ALL) THEN None
    ELSE IF BitAnd(pending, bit_mask(Interrupt_ALL[k])) # 0 THEN Some(Interrupt_ALL[k])
    ELSE first_pending(pending, k + 1)

RECURSIVE last_pending(_, _)
last_pending(pending, k) ==
    IF k < 1 THEN None
    ELSE IF BitAnd(pending, bit_mask(Interrupt_ALL[k])) # 0 THEN Some(Interrupt_ALL[k])
    ELSE last_pending(pending, k - 1)

get_pending_interrupt_lowest(ic) ==
    LET pending == BitAnd(BitAnd(ic.interrupt_flag, ic.interrupt_enable), 31)
    IN  IF pending = 0 THEN None ELSE last_pending(pending, Len(Interrupt_ALL))

get_pending_interrupt(ic) ==
    LET pending == BitAnd(BitAnd(ic.interrupt_flag, ic.interrupt_enable), 31)
    IN  IF pending = 0 THEN None ELSE first_pending(pending, 1)

service_interrupt(ic, i) ==
    [interrupts |-> acknowledge_interrupt(ic, i), address |-> handler_address(i)]

----
\* ppu.rs: the part the bus reaches (VRAM bytes and the twelve LCD registers)

GPU_new ==
    [vram |-> <<>>, lcdc |-> 145, stat |-> 0, scy |-> 0, scx |-> 0, ly |-> 0,
     lyc |-> 0, dma |-> 0, bgp |-> 252, obp0 |-> 255, obp1 |-> 255, wy |-> 0, wx |-> 0]

MemGet(m, a) == IF a \in DOMAIN m THEN m[a] ELSE 0

MemSet(m, a, v) ==
    IF v = 0 THEN [x \in (DOMAIN m) \ {a} |-> m[x]]
    ELSE [x \in (DOMAIN m) \cup {a} |-> IF x = a THEN v ELSE m[x]]

read_vram(g, address) == MemGet(g.vram, address)

write_vram(g, index, value) == [g EXCEPT !.vram = MemSet(g.vram, index, value)]

read_register(g, addr) ==
    CASE addr = 65344 -> g.lcdc
      [] addr = 65345 -> g.stat
      [] addr = 65346 -> g.scy
      [] addr = 65347 -> g.scx
      [] addr = 65348 -> g.ly
      [] addr = 65349 -> g.lyc
      [] addr = 65350 -> g.dma
      [] addr = 65351 -> g.bgp
      [] addr = 65352 -> g.obp0
      [] addr = 65353 -> g.obp1
      [] addr = 65354 -> g.wy
      [] addr = 65355 -> g.wx
      [] OTHER -> 0

write_register(g, addr, value) ==
    CASE addr = 65344 -> [g EXCEPT !.lcdc = value]
      [] addr = 65345 -> [g EXCEPT !.stat = value]
      [] addr = 65346 -> [g EXCEPT !.scy = value]
      [] addr = 65347 -> [g EXCEPT !.scx = value]
      [] addr = 65348 -> [g EXCEPT !.ly = value]
      [] addr = 65349 -> [g EXCEPT !.lyc = value]
      [] addr = 65350 -> [g EXCEPT !.dma = value]
      [] addr = 65351 -> [g EXCEPT !.bgp = value]
      [] addr = 65352 -> [g EXCEPT !.obp0 = value]
      [] addr = 65353 -> [g EXCEPT !.obp1 = value]
      [] addr = 65354 -> [g EXCEPT !.wy = value]
      [] addr = 65355 -> [g EXCEPT !.wx = value]
      [] OTHER -> g

----
\* memory_bus.rs

MEM_SIZE == 65536
SERIAL_TRANSFER_DATA == 65281
SERIAL_TRANSFER_CONTROL == 65282
SERIAL_CONTROL_IDLE == 126
UNMAPPED_MEMORY_VALUE == 255
ECHO_RAM_MIRROR_OFFSET == 8192

Min(x, y) == IF x < y THEN x ELSE y

MemoryBus_new_one_short(rom_data) ==
    LET copy_len == Min(Len(rom_data), MEM_SIZE) - 1
        image == [a \in {x \in 0..(copy_len - 1) : rom_data[x + 1] # 0} |-> rom_data[a + 1]]
    IN  [memory |-> MemSet(MemSet(image, SERIAL_TRANSFER_DATA, 0),
                           SERIAL_TRANSFER_CONTROL, SERIAL_CONTROL_IDLE),
         gpu |-> GPU_new,
         timer |-> Timer_new,
         interrupts |-> InterruptController_new,
         serial_output |-> <<>>]

MemoryBus_new(rom_data) ==
    LET copy_len == Min(Len(rom_data), MEM_SIZE)
        image == [a \in {x \in 0..(copy_len - 1) : rom_data[x + 1] # 0} |-> rom_data[a + 1]]
    IN  [memory |-> MemSet(MemSet(image, SERIAL_TRANSFER_DATA, 0),
                           SERIAL_TRANSFER_CONTROL, SERIAL_CONTROL_IDLE),
         gpu |-> GPU_new,
         timer |-> Timer_new,
         interrupts |-> InterruptController_new,
         serial_output |-> <<>>]

read_byte(b, address) ==
    CASE address \in 0..32767 -> MemGet(b.memory, address)
      [] address \in 32768..40959 -> read_vram(b.gpu, address - 32768)
      [] address \in 40960..49151 -> MemGet(b.memory, address)
      [] address \in 49152..57343 -> MemGet(b.memory, address)
      [] address \in 57344..65023 -> MemGet(b.memory, address - ECHO_RAM_MIRROR_OFFSET)
      [] address \in 65024..65183 -> MemGet(b.memory, address)
      [] address \in {SERIAL_TRANSFER_DATA, SERIAL_TRANSFER_CONTROL} ->
            MemGet(b.memory, address)
      [] address \in 65284..65287 -> Timer_read(b.timer, address)
      [] address \in 65344..65355 -> read_register(b.gpu, address)
      [] address = 65295 -> read_if(b.interrupts)
      [] address \in 65280..65407 /\ address \notin {SERIAL_TRANSFER_DATA, SERIAL_TRANSFER_CONTROL}
            /\ address \notin 65284..65287 /\ address \notin 65344..65355 /\ address # 65295 ->
            MemGet(b.memory, address)
      [] address \in 65408..65534 -> MemGet(b.memory, address)
      [] address = 65535 -> read_ie(b.interrupts)
      [] OTHER -> UNMAPPED_MEMORY_VALUE

write_byte_echo_unmirrored(b, address, value) ==
    CASE address \in 0..32767 -> b
      [] address \in 32768..40959 ->
            [b EXCEPT !.gpu = write_vram(b.gpu, address - 32768, value)]
      [] address \in 40960..49151 -> [b EXCEPT !.memory = MemSet(b.memory, address, value)]
      [] address \in 49152..57343 -> [b EXCEPT !.memory = MemSet(b.memory, address, value)]
      [] address \in 57344..65023 ->
            [b EXCEPT !.memory = MemSet(b.memory, address, value)]
      [] address \in 65024..65183 -> [b EXCEPT !.memory = MemSet(b.memory, address, value)]
      [] address = SERIAL_TRANSFER_DATA ->
            [b EXCEPT !.memory = MemSet(b.memory, address, value)]
      [] address = SERIAL_TRANSFER_CONTROL ->
            IF BitAnd(value, 128) # 0
            THEN [b EXCEPT !.serial_output = Append(b.serial_output, read_byte(b, 65281)),
                           !.memory = MemSet(b.memory, SERIAL_TRANSFER_CONTROL,
                                             BitAnd(value, 127))]
            ELSE [b EXCEPT !.memory = MemSet(b.memory, address, value)]
      [] address \in 65284..65287 ->
            [b EXCEPT !.timer = Timer_write(b.timer, address, value)]
      [] address \in 65344..65355 ->
            [b EXCEPT !.gpu = write_register(b.gpu, address, value)]
      [] address = 65295 -> [b EXCEPT !.interrupts = write_if(b.interrupts, value)]
      [] address \in 65280..65407 /\ address \notin {SERIAL_TRANSFER_DATA, SERIAL_TRANSFER_CONTROL}
            /\ address \notin 65284..65287 /\ address \notin 65344..65355 /\ address # 65295 ->
            [b EXCEPT !.memory = MemSet(b.memory, address, value)]
      [] address \in 65408..65534 -> [b EXCEPT !.memory = MemSet(b.memory, address, value)]
      [] address = 65535 -> [b EXCEPT !.interrupts = write_ie(b.interrupts, value)]
      [] OTHER -> b

write_byte_rom_writable(b, address, value) ==
    CASE address \in 0..32767 -> [b EXCEPT !.memory = MemSet(b.memory, address, value)]
      [] address \in 32768..40959 ->
            [b EXCEPT !.gpu = write_vram(b.gpu, address - 32768, value)]
      [] address \in 40960..49151 -> [b EXCEPT !.memory = MemSet(b.memory, address, value)]
      [] address \in 49152..57343 -> [b EXCEPT !.memory = MemSet(b.memory, address, value)]
      [] address \in 57344..65023 ->
            [b EXCEPT !.memory = MemSet(b.memory, address - ECHO_RAM_MIRROR_OFFSET, value)]
      [] address \in 65024..65183 -> [b EXCEPT !.memory = MemSet(b.memory, address, value)]
      [] address = SERIAL_TRANSFER_DATA ->
            [b EXCEPT !.memory = MemSet(b.memory, address, value)]
      [] address = SERIAL_TRANSFER_CONTROL ->
            IF BitAnd(value, 128) # 0
            THEN [b EXCEPT !.serial_output = Append(b.serial_output, read_byte(b, 65281)),
                           !.memory = MemSet(b.memory, SERIAL_TRANSFER_CONTROL,
                                             BitAnd(value, 127))]
            ELSE [b EXCEPT !.memory = MemSet(b.memory, address, value)]
      [] address \in 65284..65287 ->
            [b EXCEPT !.timer = Timer_write(b.timer, address, value)]
      [] address \in 65344..65355 ->
            [b EXCEPT !.gpu = write_register(b.gpu, address, value)]
      [] address = 65295 -> [b EXCEPT !.interrupts = write_if(b.interrupts, value)]
      [] address \in 65280..65407 /\ address \notin {SERIAL_TRANSFER_DATA, SERIAL_TRANSFER_CONTROL}
            /\ address \notin 65284..65287 /\ address \notin 65344..65355 /\ address # 65295 ->
            [b EXCEPT !.memory = MemSet(b.memory, address, value)]
      [] address \in 65408..65534 -> [b EXCEPT !.memory = MemSet(b.memory, address, value)]
      [] address = 65535 -> [b EXCEPT !.interrupts = write_ie(b.interrupts, value)]
      [] OTHER -> b

write_byte_keep_bit7(b, address, value) ==
    CASE address \in 0..32767 -> b
      [] address \in 32768..40959 ->
            [b EXCEPT !.gpu = write_vram(b.gpu, address - 32768, value)]
      [] address \in 40960..49151 -> [b EXCEPT !.memory = MemSet(b.memory, address, value)]
      [] address \in 49152..57343 -> [b EXCEPT !.memory = MemSet(b.memory, address, value)]
      [] address \in 57344..65023 ->
            [b EXCEPT !.memory = MemSet(b.memory, address - ECHO_RAM_MIRROR_OFFSET, value)]
      [] address \in 65024..65183 -> [b EXCEPT !.memory = MemSet(b.memory, address, value)]
      [] address = SERIAL_TRANSFER_DATA ->
            [b EXCEPT !.memory = MemSet(b.memory, address, value)]
      [] address = SERIAL_TRANSFER_CONTROL ->
            IF BitAnd(value, 128) # 0
            THEN [b EXCEPT !.serial_output = Append(b.serial_output, read_byte(b, 65281)),
                           !.memory = MemSet(b.memory, SERIAL_TRANSFER_CONTROL,
                                             value)]
            ELSE [b EXCEPT !.memory = MemSet(b.memory, address, value)]
      [] address \in 65284..65287 ->
            [b EXCEPT !.timer = Timer_write(b.timer, address, value)]
      [] address \in 65344..65355 ->
            [b EXCEPT !.gpu = write_register(b.gpu, address, value)]
      [] address = 65295 -> [b EXCEPT !.interrupts = write_if(b.interrupts, value)]
      [] address \in 65280..65407 /\ address \notin {SERIAL_TRANSFER_DATA, SERIAL_TRANSFER_CONTROL}
            /\ address \notin 65284..65287 /\ address \notin 65344..65355 /\ address # 65295 ->
            [b EXCEPT !.memory = MemSet(b.memory, address, value)]
      [] address \in 65408..65534 -> [b EXCEPT !.memory = MemSet(b.memory, address, value)]
      [] address = 65535 -> [b EXCEPT !.interrupts = write_ie(b.interrupts, value)]
      [] OTHER -> b

write_byte(b, address, value) ==
    CASE address \in 0..32767 -> b
      [] address \in 32768..40959 ->
            [b EXCEPT !.gpu = write_vram(b.gpu, address - 32768, value)]
      [] address \in 40960..49151 -> [b EXCEPT !.memory = MemSet(b.memory, address, value)]
      [] address \in 49152..57343 -> [b EXCEPT !.memory = MemSet(b.memory, address, value)]
      [] address \in 57344..65023 ->
            [b EXCEPT !.memory = MemSet(b.memory, address - ECHO_RAM_MIRROR_OFFSET, value)]
      [] address \in 65024..65183 -> [b EXCEPT !.memory = MemSet(b.memory, address, value)]
      [] address = SERIAL_TRANSFER_DATA ->
            [b EXCEPT !.memory = MemSet(b.memory, address, value)]
      [] address = SERIAL_TRANSFER_CONTROL ->
            IF BitAnd(value, 128) # 0
            THEN [b EXCEPT !.serial_output = Append(b.serial_output, read_byte(b, 65281)),
                           !.memory = MemSet(b.memory, SERIAL_TRANSFER_CONTROL,
                                             BitAnd(value, 127))]
            ELSE [b EXCEPT !.memory = MemSet(b.memory, address, value)]
      [] address \in 65284..65287 ->
            [b EXCEPT !.timer = Timer_write(b.timer, address, value)]
      [] address \in 65344..65355 ->
            [b EXCEPT !.gpu = write_register(b.gpu, address, value)]
      [] address = 65295 -> [b EXCEPT !.interrupts = write_if(b.interrupts, value)]
      [] address \in 65280..65407 /\ address \notin {SERIAL_TRANSFER_DATA, SERIAL_TRANSFER_CONTROL}
            /\ address \notin 65284..65287 /\ address \notin 65344..65355 /\ address # 65295 ->
            [b EXCEPT !.memory = MemSet(b.memory, address, value)]
      [] address \in 65408..65534 -> [b EXCEPT !.memory = MemSet(b.memory, address, value)]
      [] address = 65535 -> [b EXCEPT !.interrupts = write_ie(b.interrupts, value)]
      [] OTHER -> b

tick_timer_any(b) ==
    LET r == tick(b.timer)
    IN  [bus |-> [b EXCEPT !.timer = r.timer,
                           !.interrupts = request_interrupt(b.interrupts, TimerInt)],
         interrupt |-> r.interrupt]

tick_timer_silent(b) ==
    LET r == tick(b.timer)
    IN  [bus |-> [b EXCEPT !.timer = r.timer], interrupt |-> r.interrupt]

tick_timer(b) ==
    LET r == tick(b.timer)
    IN  [bus |-> [b EXCEPT !.timer = r.timer,
                           !.interrupts = IF r.interrupt
                                          THEN request_interrupt(b.interrupts, TimerInt)
                                          ELSE b.interrupts],
         interrupt |-> r.interrupt]

----
\* register.rs

FlagsRegister_from_byte_low_nibble(byte) ==
    [zero |-> BitAnd(byte, 8) # 0, subtract |-> BitAnd(byte, 4) # 0,
     half_carry |-> BitAnd(byte, 2) # 0, carry |-> BitAnd(byte, 1) # 0]

FlagsRegister_from_byte(byte) ==
    LET m == BitAnd(byte, 240)
    IN  [zero |-> BitAnd(m, 128) # 0, subtract |-> BitAnd(m, 64) # 0,
         half_carry |-> BitAnd(m, 32) # 0, carry |-> BitAnd(m, 16) # 0]

to_byte(f) ==
    BitOr(BitOr(IF f.zero THEN 128 ELSE 0, IF f.subtract THEN 64 ELSE 0),
          BitOr(IF f.half_carry THEN 32 ELSE 0, IF f.carry THEN 16 ELSE 0))

Registers_new ==
    [a |-> 1, b |-> 0, c |-> 19, d |-> 0, e |-> 216, f |-> FlagsRegister_from_byte(192),
     h |-> 1, l |-> 77, sp |-> 65534, pc |-> 256]

get_hl(r) == r.h * 256 + r.l

----
\* instructions/decode: Option<Instruction>; an instruction is [name, arg]

Ins(name, operands) == [name |-> name, arg |-> operands]

JumpTest_from_bits(bits) ==
    CASE (bits \div 8) % 4 = 0 -> "NotZero"
      [] (bits \div 8) % 4 = 1 -> "Zero"
      [] (bits \div 8) % 4 = 2 -> "NotCarry"
      [] (bits \div 8) % 4 = 3 -> "Carry"

control_flow_decode(byte) ==
    CASE byte = 0 -> Some(Ins("NOP", <<>>))
      [] byte = 118 -> Some(Ins("HALT", <<>>))
      [] byte = 243 -> Some(Ins("DI", <<>>))
      [] byte = 251 -> Some(Ins("EI", <<>>))
      [] byte = 7 -> Some(Ins("RLCA", <<>>))
      [] byte = 15 -> Some(Ins("RRCA", <<>>))
      [] byte = 23 -> Some(Ins("RLA", <<>>))
      [] byte = 31 -> Some(Ins("RRA", <<>>))
      [] byte = 39 -> Some(Ins("DAA", <<>>))
      [] byte = 47 -> Some(Ins("CPL", <<>>))
      [] byte = 55 -> Some(Ins("SCF", <<>>))
      [] byte = 63 -> Some(Ins("CCF", <<>>))
      [] byte = 195 -> Some(Ins("JP", <<"Always">>))
      [] byte \in {194, 202, 210, 218} -> Some(Ins("JP", <<JumpTest_from_bits(byte)>>))
      [] byte = 233 -> Some(Ins("JP_HL", <<>>))
      [] byte = 24 -> Some(Ins("JR", <<"Always">>))
      [] byte \in {32, 40, 48, 56} -> Some(Ins("JR", <<JumpTest_from_bits(byte)>>))
      [] byte = 205 -> Some(Ins("CALL", <<"Always">>))
      [] byte \in {196, 204, 212, 220} -> Some(Ins("CALL", <<JumpTest_from_bits(byte)>>))
      [] byte = 201 -> Some(Ins("RET", <<"Always">>))
      [] byte \in {192, 200, 208, 216} -> Some(Ins("RET", <<JumpTest_from_bits(byte)>>))
      [] byte = 217 -> Some(Ins("RETI", <<>>))
      [] byte \in {199, 207, 215, 223, 231, 239, 247, 255} -> Some(Ins("RST", <<byte - 199>>))
      [] OTHER -> None

ArithmeticTarget_from_lower_bits(bits) ==
    CASE bits % 8 = 0 -> Some("B")
      [] bits % 8 = 1 -> Some("C")
      [] bits % 8 = 2 -> Some("D")
      [] bits % 8 = 3 -> Some("E")
      [] bits % 8 = 4 -> Some("H")
      [] bits % 8 = 5 -> Some("L")
      [] bits % 8 = 6 -> None
      [] bits % 8 = 7 -> Some("A")

arithmetic_decode(byte) ==
    LET t == ArithmeticTarget_from_lower_bits(byte)
        map(name) == IF t = None THEN None ELSE Some(Ins(name, <<t[1]>>))
    IN  IF byte \in 128..135 /\ byte # 134 THEN map("ADD")
        ELSE IF byte \in 136..143 THEN map("ADC")
        ELSE IF byte \in 144..151 THEN map("SUB")
        ELSE IF byte \in 152..159 THEN map("SBC")
        ELSE IF byte \in 160..167 THEN map("AND")
        ELSE IF byte \in 168..175 THEN map("XOR")
        ELSE IF byte \in 176..183 THEN map("OR")
        ELSE IF byte \in 184..191 THEN map("CP")
        ELSE None

incdec_decode(byte) ==
    CASE byte = 4 -> Some(Ins("INC", <<"Reg8", "B">>))
      [] byte = 12 -> Some(Ins("INC", <<"Reg8", "C">>))
      [] byte = 20 -> Some(Ins("INC", <<"Reg8", "D">>))
      [] byte = 28 -> Some(Ins("INC", <<"Reg8", "E">>))
      [] byte = 36 -> Some(Ins("INC", <<"Reg8", "H">>))
      [] byte = 44 -> Some(Ins("INC", <<"Reg8", "L">>))
      [] byte = 60 -> Some(Ins("INC", <<"Reg8", "A">>))
      [] byte = 3 -> Some(Ins("INC", <<"Reg16", "BC">>))
      [] byte = 19 -> Some(Ins("INC", <<"Reg16", "DE">>))
      [] byte = 35 -> Some(Ins("INC", <<"Reg16", "HL">>))
      [] byte = 51 -> Some(Ins("INC", <<"Reg16", "SP">>))
      [] byte = 5 -> Some(Ins("DEC", <<"Reg8", "B">>))
      [] byte = 13 -> Some(Ins("DEC", <<"Reg8", "C">>))
      [] byte = 21 -> Some(Ins("DEC", <<"Reg8", "D">>))
      [] byte = 29 -> Some(Ins("DEC", <<"Reg8", "E">>))
      [] byte = 37 -> Some(Ins("DEC", <<"Reg8", "H">>))
      [] byte = 45 -> Some(Ins("DEC", <<"Reg8", "L">>))
      [] byte = 61 -> Some(Ins("DEC", <<"Reg8", "A">>))
      [] byte = 11 -> Some(Ins("DEC", <<"Reg16", "BC">>))
      [] byte = 27 -> Some(Ins("DEC", <<"Reg16", "DE">>))
      [] byte = 43 -> Some(Ins("DEC", <<"Reg16", "HL">>))
      [] byte = 59 -> Some(Ins("DEC", <<"Reg16", "SP">>))
      [] OTHER -> None

arithmetic16_decode(byte) ==
    CASE byte = 9 -> Some(Ins("ADDHL", <<"BC">>))
      [] byte = 25 -> Some(Ins("ADDHL", <<"DE">>))
      [] byte = 41 -> Some(Ins("ADDHL", <<"HL">>))
      [] byte = 57 -> Some(Ins("ADDHL", <<"SP">>))
      [] byte = 232 -> Some(Ins("ADDSP", <<>>))
      [] byte = 248 -> Some(Ins("LDHLSP", <<>>))
      [] byte = 249 -> Some(Ins("LD", <<"Word", "SP", "HL">>))
      [] OTHER -> None

LoadByteTarget_from_upper_bits(bits) ==
    Some(<<"B", "C", "D", "E", "H", "L", "HLI", "A">>[((bits \div 8) % 8) + 1])

LoadByteSource_from_lower_bits(bits) ==
    Some(<<"B", "C", "D", "E", "H", "L", "HLI", "A">>[(bits % 8) + 1])

LoadWordTarget_from_bits(bits) ==
    Some(<<"BC", "DE", "HL", "SP">>[((bits \div 16) % 4) + 1])

decode_register_load(byte) ==
    Some(Ins("LD", <<"Byte", LoadByteTarget_from_upper_bits(byte)[1],
                     LoadByteSource_from_lower_bits(byte)[1]>>))

load_decode(byte) ==
    IF byte \in 64..127 /\ byte # 118 THEN decode_register_load(byte)
    ELSE CASE byte = 6 -> Some(Ins("LD", <<"Byte", "B", "D8">>))
           [] byte = 14 -> Some(Ins("LD", <<"Byte", "C", "D8">>))
           [] byte = 22 -> Some(Ins("LD", <<"Byte", "D", "D8">>))
           [] byte = 30 -> Some(Ins("LD", <<"Byte", "E", "D8">>))
           [] byte = 38 -> Some(Ins("LD", <<"Byte", "H", "D8">>))
           [] byte = 46 -> Some(Ins("LD", <<"Byte", "L", "D8">>))
           [] byte = 62 -> Some(Ins("LD", <<"Byte", "A", "D8">>))
           [] byte = 54 -> Some(Ins("LD", <<"Byte", "HLI", "D8">>))
           [] byte \in {1, 17, 33, 49} ->
                Some(Ins("LD", <<"Word", LoadWordTarget_from_bits(byte)[1], "D16">>))
           [] byte = 10 -> Some(Ins("LD", <<"Byte", "A", "BCI">>))
           [] byte = 2 -> Some(Ins("LD", <<"Byte", "BCI", "A">>))
           [] byte = 8 -> Some(Ins("LD", <<"Word", "A16I", "SP">>))
           [] byte = 34 -> Some(Ins("LD", <<"Byte", "HLI_INC", "A">>))
           [] byte = 50 -> Some(Ins("LD", <<"Byte", "HLI_DEC", "A">>))
           [] byte = 26 -> Some(Ins("LD", <<"Byte", "A", "DEI">>))
           [] byte = 42 -> Some(Ins("LD", <<"Byte", "A", "HLI_INC">>))
           [] byte = 58 -> Some(Ins("LD", <<"Byte", "A", "HLI_DEC">>))
           [] byte = 18 -> Some(Ins("LD", <<"Byte", "DEI", "A">>))
           [] byte = 234 -> Some(Ins("LD", <<"Byte", "A16I", "A">>))
           [] byte = 250 -> Some(Ins("LD", <<"Byte", "A", "A16I">>))
           [] byte = 224 -> Some(Ins("LD", <<"Byte", "A8I", "A">>))
           [] byte = 240 -> Some(Ins("LD", <<"Byte", "A", "A8I">>))
           [] byte = 226 -> Some(Ins("LD", <<"Byte", "CI", "A">>))
           [] byte = 242 -> Some(Ins("LD", <<"Byte", "A", "CI">>))
           [] OTHER -> None

StackTarget_from_bits(bits) ==
    Some(<<"BC", "DE", "HL", "AF">>[((bits \div 16) % 4) + 1])

stack_decode(byte) ==
    IF byte \in {197, 213, 229, 245}
    THEN Some(Ins("PUSH", <<StackTarget_from_bits(byte)[1]>>))
    ELSE IF byte \in {193, 209, 225, 241}
    THEN Some(Ins("POP", <<StackTarget_from_bits(byte)[1]>>))
    ELSE None

\* Opcodes whose decoding or execution is modelled; the programs explored
\* contain no other byte.
Modelled == {0, 118, 243, 251, 195, 194, 202, 210, 218, 233, 24, 32, 40, 48, 56,
             205, 196, 204, 212, 220, 201, 192, 200, 208, 216, 217,
             199, 207, 215, 223, 231, 239, 247, 255, 62, 211, 16,
             128, 129, 130, 131, 132, 133, 134, 135, 198,
             136, 137, 138, 139, 140, 141, 143, 144, 145, 146, 147, 148, 149, 151,
             152, 153, 154, 155, 156, 157, 159, 160, 161, 162, 163, 164, 165, 167,
             168, 169, 170, 171, 172, 173, 175, 176, 177, 178, 179, 180, 181, 183,
             184, 185, 186, 187, 188, 189, 191,
             4, 12, 20, 28, 36, 44, 60, 5, 13, 21, 29, 37, 45, 61,
             3, 19, 35, 51, 11, 27, 43, 59, 39, 9, 25, 41, 57, 232, 248}

decode_not_prefixed(byte) ==
    IF control_flow_decode(byte) # None THEN control_flow_decode(byte)
    ELSE IF incdec_decode(byte) # None THEN incdec_decode(byte)
    ELSE IF arithmetic_decode(byte) # None THEN arithmetic_decode(byte)
    ELSE IF arithmetic16_decode(byte) # None THEN arithmetic16_decode(byte)
    ELSE IF load_decode(byte) # None THEN load_decode(byte)
    ELSE stack_decode(byte)

decode_prefix_target(bits) ==
    Some(<<"B", "C", "D", "E", "H", "L", "HLI", "A">>[(bits % 8) + 1])

decode_prefixed(byte) ==
    LET target == decode_prefix_target(BitAnd(byte, 7))[1]
        bit == (byte \div 8) % 8
    IN  CASE byte \in 0..7 -> Some(Ins("RLC", <<target>>))
          [] byte \in 8..15 -> Some(Ins("RRC", <<target>>))
          [] byte \in 16..23 -> Some(Ins("RL", <<target>>))
          [] byte \in 24..31 -> Some(Ins("RR", <<target>>))
          [] byte \in 32..39 -> Some(Ins("SLA", <<target>>))
          [] byte \in 40..47 -> Some(Ins("SRA", <<target>>))
          [] byte \in 48..55 -> Some(Ins("SWAP", <<target>>))
          [] byte \in 56..63 -> Some(Ins("SRL", <<target>>))
          [] byte \in 64..127 -> Some(Ins("BIT", <<bit, target>>))
          [] byte \in 128..191 -> Some(Ins("RES", <<bit, target>>))
          [] byte \in 192..255 -> Some(Ins("SET", <<bit, target>>))

decode_instruction(byte, prefixed) ==
    IF prefixed THEN decode_prefixed(byte) ELSE decode_not_prefixed(byte)

from_byte(byte, prefixed) == decode_instruction(byte, prefixed)

----
\* cpu.rs: c is the CPU, [registers, bus, is_halted, interrupts_enabled,
\* ei_pending, halt_bug]

CPU_new(rom_data) ==
    [registers |-> Registers_new, bus |-> MemoryBus_new(rom_data),
     is_halted |-> FALSE, interrupts_enabled |-> FALSE,
     ei_pending |-> FALSE, halt_bug |-> FALSE]

push_low_first(c, value) ==
    LET sp1 == wrapping_sub16(c.registers.sp, 1)
        b1  == write_byte(c.bus, sp1, value % 256)
        sp2 == wrapping_sub16(sp1, 1)
        b2  == write_byte(b1, sp2, BitAnd(value, 65280) \div 256)
    IN  [c EXCEPT !.registers.sp = sp2, !.bus = b2]

push(c, value) ==
    LET sp1 == wrapping_sub16(c.registers.sp, 1)
        b1  == write_byte(c.bus, sp1, BitAnd(value, 65280) \div 256)
        sp2 == wrapping_sub16(sp1, 1)
        b2  == write_byte(b1, sp2, BitAnd(value, 255))
    IN  [c EXCEPT !.registers.sp = sp2, !.bus = b2]

pop_msb_first(c) ==
    LET msb == read_byte(c.bus, c.registers.sp)
        sp1 == wrapping_add16(c.registers.sp, 1)
        lsb == read_byte(c.bus, sp1)
        sp2 == wrapping_add16(sp1, 1)
    IN  [cpu |-> [c EXCEPT !.registers.sp = sp2], value |-> BitOr(msb * 256, lsb)]

pop(c) ==
    LET lsb == read_byte(c.bus, c.registers.sp)
        sp1 == wrapping_add16(c.registers.sp, 1)
        msb == read_byte(c.bus, sp1)
        sp2 == wrapping_add16(sp1, 1)
    IN  [cpu |-> [c EXCEPT !.registers.sp = sp2], value |-> BitOr(msb * 256, lsb)]

read_next_byte(c) == read_byte(c.bus, (c.registers.pc + 1) % 65536)

read_next_word(c) ==
    LET least_significant_byte == read_byte(c.bus, (c.registers.pc + 1) % 65536)
        most_significant_byte  == read_byte(c.bus, (c.registers.pc + 2) % 65536)
    IN  BitOr(most_significant_byte * 256, least_significant_byte)

should_jump_carry_as_zero(c, test) ==
    CASE test = "NotZero" -> ~c.registers.f.zero
      [] test = "NotCarry" -> ~c.registers.f.zero
      [] test = "Zero" -> c.registers.f.zero
      [] test = "Carry" -> c.registers.f.zero
      [] test = "Always" -> TRUE

should_jump(c, test) ==
    CASE test = "NotZero" -> ~c.registers.f.zero
      [] test = "NotCarry" -> ~c.registers.f.carry
      [] test = "Zero" -> c.registers.f.zero
      [] test = "Carry" -> c.registers.f.carry
      [] test = "Always" -> TRUE

jump(c, should) ==
    IF should THEN read_next_word(c) ELSE wrapping_add16(c.registers.pc, 3)

as_i8(byte) == IF byte >= 128 THEN byte - 256 ELSE byte

jump_relative(c, should) ==
    LET offset_byte == as_i8(read_next_byte(c))
    IN  IF should
        THEN (wrapping_add16(c.registers.pc, 2) + offset_byte + 65536) % 65536
        ELSE wrapping_add16(c.registers.pc, 2)

call(c, should) ==
    LET next_pc == wrapping_add16(c.registers.pc, 3)
    IN  IF should
        THEN [cpu |-> push(c, next_pc), next_pc |-> read_next_word(push(c, next_pc))]
        ELSE [cpu |-> c, next_pc |-> next_pc]

return_(c, should) ==
    IF should
    THEN [cpu |-> pop(c).cpu, next_pc |-> pop(c).value]
    ELSE [cpu |-> c, next_pc |-> wrapping_add16(c.registers.pc, 1)]

Result(c, next_pc, cyc) == [cpu |-> c, next_pc |-> next_pc, cycles |-> cyc]

execute_HALT_always(c) ==
    Result([c EXCEPT !.is_halted = TRUE], wrapping_add16(c.registers.pc, 1), 4)

execute_HALT_latch_and_halt(c) ==
    Result(IF ~c.interrupts_enabled /\ any_interrupt_pending(c.bus.interrupts)
           THEN [c EXCEPT !.halt_bug = TRUE, !.is_halted = TRUE]
           ELSE [c EXCEPT !.is_halted = TRUE],
           wrapping_add16(c.registers.pc, 1), 4)

execute_HALT(c) ==
    Result(IF ~c.interrupts_enabled /\ any_interrupt_pending(c.bus.interrupts)
           THEN [c EXCEPT !.halt_bug = TRUE]
           ELSE [c EXCEPT !.is_halted = TRUE],
           wrapping_add16(c.registers.pc, 1), 4)

get_load_byte_pc_increment(target, source) ==
    CASE target = "A16I" -> 3
      [] target = "A8I" -> 2
      [] target \notin {"A16I", "A8I"} /\ source = "A16I" -> 3
      [] target \notin {"A16I", "A8I"} /\ source = "A8I" -> 2
      [] target \notin {"A16I", "A8I"} /\ source = "D8" -> 2
      [] OTHER -> 1

get_load_byte_cycles(target, source) ==
    LET base == CASE source = "D8" -> 8
                  [] source = "A16I" -> 16
                  [] source = "A8I" -> 12
                  [] source \in {"HLI", "HLI_INC", "HLI_DEC", "BCI", "DEI", "CI"} -> 8
                  [] OTHER -> 4
        extra == CASE target \in {"HLI", "HLI_INC", "HLI_DEC", "BCI", "DEI", "CI"} -> 4
                   [] target = "A8I" -> 8
                   [] target = "A16I" -> 12
                   [] OTHER -> 0
    IN  base + extra

get_arithmetic_target(c, target) ==
    CASE target = "A" -> c.registers.a
      [] target = "B" -> c.registers.b
      [] target = "C" -> c.registers.c
      [] target = "D" -> c.registers.d
      [] target = "E" -> c.registers.e
      [] target = "H" -> c.registers.h
      [] target = "L" -> c.registers.l
      [] target = "HLI" -> read_byte(c.bus, get_hl(c.registers))
      [] target = "D8" -> read_byte(c.bus, wrapping_add16(c.registers.pc, 1))

half_carry_add_no_mask(a, b) == a + b > 15

half_carry_add(a, b) == BitAnd(a, 15) + BitAnd(b, 15) > 15

set_arithmetic_flags(c, result, subtract, carry, half_carry) ==
    [c EXCEPT !.registers.f = [zero |-> result = 0, subtract |-> subtract,
                               carry |-> carry, half_carry |-> half_carry]]

add(c, value) ==
    LET new_value == (c.registers.a + value) % 256
        did_overflow == c.registers.a + value > 255
    IN  [cpu |-> set_arithmetic_flags(c, new_value, FALSE, did_overflow,
                                      half_carry_add(c.registers.a, value)),
         value |-> new_value]

execute_ADD(c, target) ==
    LET r == add(c, get_arithmetic_target(c, target))
        c1 == [r.cpu EXCEPT !.registers.a = r.value]
    IN  CASE target = "D8" -> Result(c1, wrapping_add16(c.registers.pc, 2), 8)
          [] target = "HLI" -> Result(c1, wrapping_add16(c.registers.pc, 1), 8)
          [] OTHER -> Result(c1, wrapping_add16(c.registers.pc, 1), 4)

read_8bit(r, reg) ==
    CASE reg = "A" -> r.a
      [] reg = "B" -> r.b
      [] reg = "C" -> r.c
      [] reg = "D" -> r.d
      [] reg = "E" -> r.e
      [] reg = "H" -> r.h
      [] reg = "L" -> r.l

write_8bit(r, reg, value) ==
    CASE reg = "A" -> [r EXCEPT !.a = value]
      [] reg = "B" -> [r EXCEPT !.b = value]
      [] reg = "C" -> [r EXCEPT !.c = value]
      [] reg = "D" -> [r EXCEPT !.d = value]
      [] reg = "E" -> [r EXCEPT !.e = value]
      [] reg = "H" -> [r EXCEPT !.h = value]
      [] reg = "L" -> [r EXCEPT !.l = value]

get_bc(r) == BitOr(r.b * 256, r.c)

set_bc(r, value) ==
    [r EXCEPT !.b = BitAnd(value, 65280) \div 256, !.c = BitAnd(value, 255)]

get_de(r) == BitOr(r.d * 256, r.e)

set_de(r, value) ==
    [r EXCEPT !.d = BitAnd(value, 65280) \div 256, !.e = BitAnd(value, 255)]

set_hl(r, value) ==
    [r EXCEPT !.h = BitAnd(value, 65280) \div 256, !.l = BitAnd(value, 255)]

read_16bit(r, reg) ==
    CASE reg = "BC" -> get_bc(r)
      [] reg = "DE" -> get_de(r)
      [] reg = "HL" -> get_hl(r)
      [] reg = "SP" -> r.sp

write_16bit(r, reg, value) ==
    CASE reg = "BC" -> set_bc(r, value)
      [] reg = "DE" -> set_de(r, value)
      [] reg = "HL" -> set_hl(r, value)
      [] reg = "SP" -> [r EXCEPT !.sp = value]

half_carry_add_with_carry(a, b, carry_in) ==
    BitAnd(a, 15) + BitAnd(b, 15) + (IF carry_in THEN 1 ELSE 0) > 15

half_borrow_sub(a, b) == BitAnd(a, 15) < BitAnd(b, 15)

half_borrow_sub_with_carry(a, b, carry_in) ==
    BitAnd(a, 15) < BitAnd(b, 15) + (IF carry_in THEN 1 ELSE 0)

half_carry_inc(value) == BitAnd(value, 15) = 15

half_borrow_dec(value) == BitAnd(value, 15) = 0

add_sp_signed(sp, offset) == (sp + ((offset + 65536) % 65536)) % 65536

half_carry_add_sp(sp, offset) ==
    BitAnd(sp, 15) + BitAnd((offset + 256) % 256, 15) > 15

carry_add_sp(sp, offset) == BitAnd(sp, 255) + ((offset + 256) % 256) > 255

adc(c, value) ==
    LET carry_in == c.registers.f.carry
        temp == (c.registers.a + value) % 256
        overflow1 == c.registers.a + value > 255
        new_value == (temp + (IF carry_in THEN 1 ELSE 0)) % 256
        overflow2 == temp + (IF carry_in THEN 1 ELSE 0) > 255
        half_carry == half_carry_add_with_carry(c.registers.a, value, carry_in)
    IN  [cpu |-> set_arithmetic_flags(c, new_value, FALSE, overflow1 \/ overflow2,
                                      half_carry),
         value |-> new_value]

sub_borrow_ignored(c, value) ==
    LET new_value == (c.registers.a + 256 - value) % 256
    IN  [cpu |-> set_arithmetic_flags(c, new_value, TRUE, FALSE,
                                      half_borrow_sub(c.registers.a, value)),
         value |-> new_value]

sub(c, value) ==
    LET new_value == (c.registers.a + 256 - value) % 256
        did_overflow == c.registers.a < value
    IN  [cpu |-> set_arithmetic_flags(c, new_value, TRUE, did_overflow,
                                      half_borrow_sub(c.registers.a, value)),
         value |-> new_value]

sbc_narrow_half_borrow(c, value) ==
    LET carry_in == c.registers.f.carry
        temp == (c.registers.a + 256 - value) % 256
        overflow1 == c.registers.a < value
        new_value == (temp + 256 - (IF carry_in THEN 1 ELSE 0)) % 256
        overflow2 == temp < (IF carry_in THEN 1 ELSE 0)
        half_carry == BitAnd(c.registers.a, 15)
                        < (BitAnd(value, 15) + (IF carry_in THEN 1 ELSE 0)) % 16
    IN  [cpu |-> set_arithmetic_flags(c, new_value, TRUE, overflow1 \/ overflow2,
                                      half_carry),
         value |-> new_value]

sbc(c, value) ==
    LET carry_in == c.registers.f.carry
        temp == (c.registers.a + 256 - value) % 256
        overflow1 == c.registers.a < value
        new_value == (temp + 256 - (IF carry_in THEN 1 ELSE 0)) % 256
        overflow2 == temp < (IF carry_in THEN 1 ELSE 0)
        half_carry == half_borrow_sub_with_carry(c.registers.a, value, carry_in)
    IN  [cpu |-> set_arithmetic_flags(c, new_value, TRUE, overflow1 \/ overflow2,
                                      half_carry),
         value |-> new_value]

set_logic_flags(c, result, half_carry) ==
    [c EXCEPT !.registers.f = [zero |-> result = 0, subtract |-> FALSE,
                               half_carry |-> half_carry, carry |-> FALSE]]

BitXor(x, y) == BitOr(x, y) - BitAnd(x, y)

or(c, value) ==
    LET new_value == BitOr(c.registers.a, value)
    IN  [cpu |-> set_logic_flags(c, new_value, FALSE), value |-> new_value]

xor(c, value) ==
    LET new_value == BitXor(c.registers.a, value)
    IN  [cpu |-> set_logic_flags(c, new_value, FALSE), value |-> new_value]

cp(c, value) ==
    LET result == (c.registers.a + 256 - value) % 256
        did_overflow == c.registers.a < value
    IN  [c EXCEPT !.registers.f = [zero |-> result = 0, subtract |-> TRUE,
                                   carry |-> did_overflow,
                                   half_carry |-> half_borrow_sub(c.registers.a, value)]]

inc_8bit_sets_carry(c, value) ==
    LET new_value == (value + 1) % 256
    IN  [cpu |-> [c EXCEPT !.registers.f.zero = new_value = 0,
                           !.registers.f.subtract = FALSE,
                           !.registers.f.half_carry = half_carry_inc(value),
                           !.registers.f.carry = value = 255],
         value |-> new_value]

inc_8bit(c, value) ==
    LET new_value == (value + 1) % 256
    IN  [cpu |-> [c EXCEPT !.registers.f.zero = new_value = 0,
                           !.registers.f.subtract = FALSE,
                           !.registers.f.half_carry = half_carry_inc(value)],
         value |-> new_value]

dec_8bit(c, value) ==
    LET new_value == (value + 255) % 256
    IN  [cpu |-> [c EXCEPT !.registers.f.zero = new_value = 0,
                           !.registers.f.subtract = TRUE,
                           !.registers.f.half_carry = half_borrow_dec(value)],
         value |-> new_value]

inc_16bit(c, reg) ==
    IF reg = "SP"
    THEN [c EXCEPT !.registers.sp = wrapping_add16(c.registers.sp, 1)]
    ELSE [c EXCEPT !.registers =
            write_16bit(c.registers, reg, wrapping_add16(read_16bit(c.registers, reg), 1))]

dec_16bit(c, reg) ==
    IF reg = "SP"
    THEN [c EXCEPT !.registers.sp = wrapping_sub16(c.registers.sp, 1)]
    ELSE [c EXCEPT !.registers =
            write_16bit(c.registers, reg, wrapping_sub16(read_16bit(c.registers, reg), 1))]

ArithmeticCost(c, target) ==
    CASE target = "D8" -> [next_pc |-> wrapping_add16(c.registers.pc, 2), cycles |-> 8]
      [] target = "HLI" -> [next_pc |-> wrapping_add16(c.registers.pc, 1), cycles |-> 8]
      [] OTHER -> [next_pc |-> wrapping_add16(c.registers.pc, 1), cycles |-> 4]

\* ADC, SUB, SBC, OR, XOR: A := op(A, operand), flags from op
execute_arithmetic(c, r, target) ==
    Result([r.cpu EXCEPT !.registers.a = r.value],
           ArithmeticCost(c, target).next_pc, ArithmeticCost(c, target).cycles)

execute_AND(c, target) ==
    LET value == get_arithmetic_target(c, target)
        a == BitAnd(c.registers.a, value)
        c1 == [c EXCEPT !.registers.a = a,
                        !.registers.f = [zero |-> a = 0, subtract |-> FALSE,
                                         half_carry |-> TRUE, carry |-> FALSE]]
    IN  Result(c1, ArithmeticCost(c, target).next_pc, ArithmeticCost(c, target).cycles)

execute_CP(c, target) ==
    Result(cp(c, get_arithmetic_target(c, target)),
           ArithmeticCost(c, target).next_pc, ArithmeticCost(c, target).cycles)

execute_INC(c, kind, reg) ==
    IF kind = "Reg8"
    THEN LET r == inc_8bit(c, read_8bit(c.registers, reg))
         IN  Result([r.cpu EXCEPT !.registers = write_8bit(r.cpu.registers, reg, r.value)],
                    wrapping_add16(c.registers.pc, 1), 4)
    ELSE Result(inc_16bit(c, reg), wrapping_add16(c.registers.pc, 1), 8)

execute_DEC(c, kind, reg) ==
    IF kind = "Reg8"
    THEN LET r == dec_8bit(c, read_8bit(c.registers, reg))
         IN  Result([r.cpu EXCEPT !.registers = write_8bit(r.cpu.registers, reg, r.value)],
                    wrapping_add16(c.registers.pc, 1), 4)
    ELSE Result(dec_16bit(c, reg), wrapping_add16(c.registers.pc, 1), 8)

execute_DAA_no_half_carry(c) ==
    LET a == c.registers.a
        f == c.registers.f
        high == ~f.subtract /\ (f.carry \/ a > 153)
        adjust == IF ~f.subtract
                  THEN (IF high THEN 96 ELSE 0)
                  ELSE (IF f.carry THEN 96 ELSE 0)
        a1 == IF ~f.subtract THEN (a + adjust) % 256 ELSE (a + 256 - adjust) % 256
    IN  Result([c EXCEPT !.registers.a = a1,
                         !.registers.f.zero = a1 = 0,
                         !.registers.f.half_carry = FALSE,
                         !.registers.f.carry = IF high THEN TRUE ELSE f.carry],
               wrapping_add16(c.registers.pc, 1), 4)

execute_DAA(c) ==
    LET a == c.registers.a
        f == c.registers.f
        low == IF ~f.subtract THEN f.half_carry \/ BitAnd(a, 15) > 9 ELSE f.half_carry
        high == ~f.subtract /\ (f.carry \/ a > 153)
        adjust == BitOr(IF low THEN 6 ELSE 0,
                        IF ~f.subtract
                        THEN (IF high THEN 96 ELSE 0)
                        ELSE (IF f.carry THEN 96 ELSE 0))
        a1 == IF ~f.subtract THEN (a + adjust) % 256 ELSE (a + 256 - adjust) % 256
    IN  Result([c EXCEPT !.registers.a = a1,
                         !.registers.f.zero = a1 = 0,
                         !.registers.f.half_carry = FALSE,
                         !.registers.f.carry = IF high THEN TRUE ELSE f.carry],
               wrapping_add16(c.registers.pc, 1), 4)

execute_ADDHL(c, reg) ==
    LET hl == get_hl(c.registers)
        value == read_16bit(c.registers, reg)
        result == (hl + value) % 65536
        carry == hl + value > 65535
        half_carry == BitAnd(hl, 4095) + BitAnd(value, 4095) > 4095
        r1 == set_hl(c.registers, result)
    IN  Result([c EXCEPT !.registers = [r1 EXCEPT !.f.subtract = FALSE,
                                                  !.f.half_carry = half_carry,
                                                  !.f.carry = carry]],
               wrapping_add16(c.registers.pc, 1), 8)

SpFlags(sp, offset_signed) ==
    [zero |-> FALSE, subtract |-> FALSE,
     half_carry |-> half_carry_add_sp(sp, offset_signed),
     carry |-> carry_add_sp(sp, offset_signed)]

execute_ADDSP_signed_flags(c) ==
    LET offset_signed == as_i8(read_next_byte(c))
        sp == c.registers.sp
        result == add_sp_signed(sp, offset_signed)
    IN  Result([c EXCEPT !.registers.f =
                            [zero |-> FALSE, subtract |-> FALSE,
                             half_carry |-> BitAnd(sp, 15) + offset_signed > 15,
                             carry |-> BitAnd(sp, 255) + offset_signed > 255],
                         !.registers.sp = result],
               wrapping_add16(c.registers.pc, 2), 16)

execute_ADDSP(c) ==
    LET offset_signed == as_i8(read_next_byte(c))
        sp == c.registers.sp
        result == add_sp_signed(sp, offset_signed)
    IN  Result([c EXCEPT !.registers.f = SpFlags(sp, offset_signed),
                         !.registers.sp = result],
               wrapping_add16(c.registers.pc, 2), 16)

execute_LDHLSP(c) ==
    LET offset_signed == as_i8(read_next_byte(c))
        sp == c.registers.sp
        result == add_sp_signed(sp, offset_signed)
        r1 == [c.registers EXCEPT !.f = SpFlags(sp, offset_signed)]
    IN  Result([c EXCEPT !.registers = set_hl(r1, result)],
               wrapping_add16(c.registers.pc, 2), 12)

get_af(r) == BitOr(r.a * 256, to_byte(r.f))

set_af(r, value) ==
    [r EXCEPT !.a = BitAnd(value, 65280) \div 256,
              !.f = FlagsRegister_from_byte(BitAnd(value, 255))]

Reg8Names == {"A", "B", "C", "D", "E", "H", "L"}

\* the value read, and the CPU after the read (HL+ and HL- move HL)
read_byte_source(c, source) ==
    LET r == c.registers
        hl == get_hl(r)
    IN  CASE source \in Reg8Names -> [cpu |-> c, value |-> read_8bit(r, source)]
          [] source = "D8" -> [cpu |-> c, value |-> read_next_byte(c)]
          [] source = "HLI" -> [cpu |-> c, value |-> read_byte(c.bus, hl)]
          [] source = "BCI" -> [cpu |-> c, value |-> read_byte(c.bus, get_bc(r))]
          [] source = "DEI" -> [cpu |-> c, value |-> read_byte(c.bus, get_de(r))]
          [] source = "HLI_INC" ->
                [cpu |-> [c EXCEPT !.registers = set_hl(r, wrapping_add16(hl, 1))],
                 value |-> read_byte(c.bus, hl)]
          [] source = "HLI_DEC" ->
                [cpu |-> [c EXCEPT !.registers = set_hl(r, wrapping_sub16(hl, 1))],
                 value |-> read_byte(c.bus, hl)]
          [] source = "A16I" -> [cpu |-> c, value |-> read_byte(c.bus, read_next_word(c))]
          [] source = "A8I" ->
                [cpu |-> c, value |-> read_byte(c.bus, 65280 + read_next_byte(c))]
          [] source = "CI" -> [cpu |-> c, value |-> read_byte(c.bus, 65280 + r.c)]

write_byte_target(c, target, value) ==
    LET r == c.registers
        hl == get_hl(r)
    IN  CASE target \in Reg8Names -> [c EXCEPT !.registers = write_8bit(r, target, value)]
          [] target = "HLI" -> [c EXCEPT !.bus = write_byte(c.bus, hl, value)]
          [] target = "BCI" -> [c EXCEPT !.bus = write_byte(c.bus, get_bc(r), value)]
          [] target = "DEI" -> [c EXCEPT !.bus = write_byte(c.bus, get_de(r), value)]
          [] target = "HLI_INC" ->
                [c EXCEPT !.bus = write_byte(c.bus, hl, value),
                          !.registers = set_hl(r, wrapping_add16(hl, 1))]
          [] target = "HLI_DEC" ->
                [c EXCEPT !.bus = write_byte(c.bus, hl, value),
                          !.registers = set_hl(r, wrapping_sub16(hl, 1))]
          [] target = "A16I" ->
                [c EXCEPT !.bus = write_byte(c.bus, read_next_word(c), value)]
          [] target = "A8I" ->
                [c EXCEPT !.bus = write_byte(c.bus, 65280 + read_next_byte(c), value)]
          [] target = "CI" -> [c EXCEPT !.bus = write_byte(c.bus, 65280 + r.c, value)]

execute_LD_Byte(c, target, source) ==
    LET s == read_byte_source(c, source)
    IN  Result(write_byte_target(s.cpu, target, s.value),
               wrapping_add16(c.registers.pc, get_load_byte_pc_increment(target, source)),
               get_load_byte_cycles(target, source))

execute_LD_Word(c, target, source) ==
    LET r == c.registers
        source_value == CASE source = "D16" -> read_next_word(c)
                          [] source = "SP" -> r.sp
                          [] source = "HL" -> get_hl(r)
        address == read_next_word(c)
        c1 == CASE target = "HL" -> [c EXCEPT !.registers = set_hl(r, source_value)]
                [] target = "BC" -> [c EXCEPT !.registers = set_bc(r, source_value)]
                [] target = "DE" -> [c EXCEPT !.registers = set_de(r, source_value)]
                [] target = "SP" -> [c EXCEPT !.registers.sp = source_value]
                [] target = "A16I" ->
                      [c EXCEPT !.bus =
                          write_byte(write_byte(c.bus, address, BitAnd(source_value, 255)),
                                     wrapping_add16(address, 1), source_value \div 256)]
        lc == CASE target = "A16I" -> <<3, 20>>
                [] target # "A16I" /\ source = "D16" -> <<3, 12>>
                [] OTHER -> <<1, 8>>
    IN  Result(c1, wrapping_add16(r.pc, lc[1]), lc[2])

read_stack_target(c, target) ==
    CASE target = "BC" -> get_bc(c.registers)
      [] target = "DE" -> get_de(c.registers)
      [] target = "HL" -> get_hl(c.registers)
      [] target = "AF" -> get_af(c.registers)

write_stack_target(c, target, value) ==
    CASE target = "BC" -> [c EXCEPT !.registers = set_bc(c.registers, value)]
      [] target = "DE" -> [c EXCEPT !.registers = set_de(c.registers, value)]
      [] target = "HL" -> [c EXCEPT !.registers = set_hl(c.registers, value)]
      [] target = "AF" -> [c EXCEPT !.registers = set_af(c.registers, value)]

execute_PUSH(c, target) ==
    Result(push(c, read_stack_target(c, target)), wrapping_add16(c.registers.pc, 1), 16)

execute_POP(c, target) ==
    LET p == pop(c)
    IN  Result(write_stack_target(p.cpu, target, p.value),
               wrapping_add16(c.registers.pc, 1), 12)

\* RLCA, RRCA, RLA, RRA: rotate A, zero flag always cleared
execute_rotate_a(c, name) ==
    LET a == c.registers.a
        old_carry == IF c.registers.f.carry THEN 1 ELSE 0
        res == CASE name = "RLCA" -> <<BitOr((a * 2) % 256, a \div 128), a \div 128>>
                 [] name = "RRCA" -> <<BitOr(a \div 2, (a % 2) * 128), a % 2>>
                 [] name = "RLA" -> <<BitOr((a * 2) % 256, old_carry), a \div 128>>
                 [] name = "RRA" -> <<BitOr(a \div 2, old_carry * 128), a % 2>>
    IN  Result([c EXCEPT !.registers.a = res[1],
                         !.registers.f = [zero |-> FALSE, subtract |-> FALSE,
                                          half_carry |-> FALSE, carry |-> res[2] = 1]],
               wrapping_add16(c.registers.pc, 1), 4)

execute_CPL(c) ==
    Result([c EXCEPT !.registers.a = 255 - c.registers.a,
                     !.registers.f.subtract = TRUE,
                     !.registers.f.half_carry = TRUE],
           wrapping_add16(c.registers.pc, 1), 4)

execute_SCF(c) ==
    Result([c EXCEPT !.registers.f.subtract = FALSE,
                     !.registers.f.half_carry = FALSE,
                     !.registers.f.carry = TRUE],
           wrapping_add16(c.registers.pc, 1), 4)

execute_CCF(c) ==
    Result([c EXCEPT !.registers.f.subtract = FALSE,
                     !.registers.f.half_carry = FALSE,
                     !.registers.f.carry = ~c.registers.f.carry],
           wrapping_add16(c.registers.pc, 1), 4)

execute_STOP(c) ==
    Result([c EXCEPT !.is_halted = TRUE], wrapping_add16(c.registers.pc, 2), 4)

to_register8(target) == IF target = "HLI" THEN None ELSE Some(target)

get_prefix_cycles_machine(target) == IF to_register8(target) # None THEN 2 ELSE 4

get_prefix_cycles(target) == IF to_register8(target) # None THEN 8 ELSE 16

read_prefix_target(c, target) ==
    IF to_register8(target) # None
    THEN read_8bit(c.registers, to_register8(target)[1])
    ELSE read_byte(c.bus, get_hl(c.registers))

write_prefix_target(c, target, value) ==
    IF to_register8(target) # None
    THEN [c EXCEPT !.registers = write_8bit(c.registers, to_register8(target)[1], value)]
    ELSE [c EXCEPT !.bus = write_byte(c.bus, get_hl(c.registers), value)]

\* RLC, RRC, RL, RR, SLA, SRA, SWAP, SRL: <<result, carry out>>
prefix_shift(name, value, old_carry) ==
    CASE name = "RLC" -> <<BitOr((value * 2) % 256, value \div 128), value \div 128>>
      [] name = "RRC" -> <<BitOr(value \div 2, (value % 2) * 128), value % 2>>
      [] name = "RL" -> <<BitOr((value * 2) % 256, old_carry), value \div 128>>
      [] name = "RR" -> <<BitOr(value \div 2, old_carry * 128), value % 2>>
      [] name = "SLA" -> <<(value * 2) % 256, value \div 128>>
      [] name = "SRA" -> <<BitOr(value \div 2, BitAnd(value, 128)), value % 2>>
      [] name = "SWAP" -> <<BitOr(BitAnd(value, 15) * 16, BitAnd(value, 240) \div 16), 0>>
      [] name = "SRL" -> <<value \div 2, value % 2>>

execute_prefix_shift(c, name, target) ==
    LET value == read_prefix_target(c, target)
        res == prefix_shift(name, value, IF c.registers.f.carry THEN 1 ELSE 0)
        c1 == write_prefix_target(c, target, res[1])
    IN  Result([c1 EXCEPT !.registers.f = [zero |-> res[1] = 0, subtract |-> FALSE,
                                           half_carry |-> FALSE, carry |-> res[2] = 1]],
               wrapping_add16(c.registers.pc, 2), get_prefix_cycles(target))

Pow2(n) == 2^n

execute_BIT(c, bit, target) ==
    LET value == read_prefix_target(c, target)
        result == BitAnd(value, Pow2(bit))
    IN  Result([c EXCEPT !.registers.f.zero = (result = 0),
                         !.registers.f.subtract = FALSE,
                         !.registers.f.half_carry = TRUE],
               wrapping_add16(c.registers.pc, 2), get_prefix_cycles(target))

execute_RES(c, bit, target) ==
    LET value == read_prefix_target(c, target)
        result == BitAnd(value, 255 - Pow2(bit))
    IN  Result(write_prefix_target(c, target, result),
               wrapping_add16(c.registers.pc, 2), get_prefix_cycles(target))

execute_SET(c, bit, target) ==
    LET value == read_prefix_target(c, target)
        result == BitOr(value, Pow2(bit))
    IN  Result(write_prefix_target(c, target, result),
               wrapping_add16(c.registers.pc, 2), get_prefix_cycles(target))

execute(c, ins) ==
    LET pc == c.registers.pc
    IN  CASE ins.name = "NOP" -> Result(c, wrapping_add16(pc, 1), 4)
          [] ins.name = "HALT" -> execute_HALT(c)
          [] ins.name = "ADD" -> execute_ADD(c, ins.arg[1])
          [] ins.name = "ADC" ->
                execute_arithmetic(c, adc(c, get_arithmetic_target(c, ins.arg[1])),
                                   ins.arg[1])
          [] ins.name = "SUB" ->
                execute_arithmetic(c, sub(c, get_arithmetic_target(c, ins.arg[1])),
                                   ins.arg[1])
          [] ins.name = "SBC" ->
                execute_arithmetic(c, sbc(c, get_arithmetic_target(c, ins.arg[1])),
                                   ins.arg[1])
          [] ins.name = "AND" -> execute_AND(c, ins.arg[1])
          [] ins.name = "OR" ->
                execute_arithmetic(c, or(c, get_arithmetic_target(c, ins.arg[1])),
                                   ins.arg[1])
          [] ins.name = "XOR" ->
                execute_arithmetic(c, xor(c, get_arithmetic_target(c, ins.arg[1])),
                                   ins.arg[1])
          [] ins.name = "CP" -> execute_CP(c, ins.arg[1])
          [] ins.name = "INC" -> execute_INC(c, ins.arg[1], ins.arg[2])
          [] ins.name = "DEC" -> execute_DEC(c, ins.arg[1], ins.arg[2])
          [] ins.name = "DAA" -> execute_DAA(c)
          [] ins.name = "ADDHL" -> execute_ADDHL(c, ins.arg[1])
          [] ins.name = "ADDSP" -> execute_ADDSP(c)
          [] ins.name = "LDHLSP" -> execute_LDHLSP(c)
          [] ins.name = "DI" ->
                Result([c EXCEPT !.interrupts_enabled = FALSE, !.ei_pending = FALSE],
                       wrapping_add16(pc, 1), 4)
          [] ins.name = "EI" ->
                Result([c EXCEPT !.ei_pending = TRUE], wrapping_add16(pc, 1), 4)
          [] ins.name = "JP" ->
                LET should == should_jump(c, ins.arg[1])
                IN  Result(c, jump(c, should), IF should THEN 16 ELSE 12)
          [] ins.name = "JR" ->
                LET should == should_jump(c, ins.arg[1])
                IN  Result(c, jump_relative(c, should), IF should THEN 12 ELSE 8)
          [] ins.name = "LD" ->
                IF ins.arg[1] = "Byte"
                THEN execute_LD_Byte(c, ins.arg[2], ins.arg[3])
                ELSE execute_LD_Word(c, ins.arg[2], ins.arg[3])
          [] ins.name = "PUSH" -> execute_PUSH(c, ins.arg[1])
          [] ins.name = "POP" -> execute_POP(c, ins.arg[1])
          [] ins.name \in {"RLCA", "RRCA", "RLA", "RRA"} -> execute_rotate_a(c, ins.name)
          [] ins.name = "CPL" -> execute_CPL(c)
          [] ins.name = "SCF" -> execute_SCF(c)
          [] ins.name = "CCF" -> execute_CCF(c)
          [] ins.name = "STOP" -> execute_STOP(c)
          [] ins.name \in {"RLC", "RRC", "RL", "RR", "SLA", "SRA", "SWAP", "SRL"} ->
                execute_prefix_shift(c, ins.name, ins.arg[1])
          [] ins.name = "BIT" -> execute_BIT(c, ins.arg[1], ins.arg[2])
          [] ins.name = "RES" -> execute_RES(c, ins.arg[1], ins.arg[2])
          [] ins.name = "SET" -> execute_SET(c, ins.arg[1], ins.arg[2])
          [] ins.name = "CALL" ->
                LET should == should_jump(c, ins.arg[1])
                    r == call(c, should)
                IN  Result(r.cpu, r.next_pc, IF should THEN 24 ELSE 12)
          [] ins.name = "RET" ->
                LET should == should_jump(c, ins.arg[1])
                    r == return_(c, should)
                IN  Result(r.cpu, r.next_pc,
                           IF ins.arg[1] = "Always" THEN 16
                           ELSE IF should THEN 20 ELSE 8)
          [] ins.name = "RETI" ->
                LET c1 == [c EXCEPT !.interrupts_enabled = TRUE]
                IN  Result(pop(c1).cpu, pop(c1).value, 16)
          [] ins.name = "RST" ->
                Result(push(c, wrapping_add16(pc, 1)), ins.arg[1], 16)
          [] ins.name = "JP_HL" -> Result(c, get_hl(c.registers), 4)

wake_from_halt(c) == [c EXCEPT !.is_halted = FALSE]

handle_interrupts_ime_kept(c) ==
    IF ~c.interrupts_enabled THEN [cpu |-> c, cycles |-> None]
    ELSE LET pending == get_pending_interrupt(c.bus.interrupts)
         IN  IF pending = None THEN [cpu |-> c, cycles |-> None]
             ELSE LET c2 == push(c, c.registers.pc)
                      s  == service_interrupt(c2.bus.interrupts, pending[1])
                      c3 == [c2 EXCEPT !.bus.interrupts = s.interrupts,
                                       !.registers.pc = s.address]
                  IN  [cpu |-> c3, cycles |-> Some(INTERRUPT_CYCLES)]

handle_interrupts(c) ==
    IF ~c.interrupts_enabled THEN [cpu |-> c, cycles |-> None]
    ELSE LET pending == get_pending_interrupt(c.bus.interrupts)
         IN  IF pending = None THEN [cpu |-> c, cycles |-> None]
             ELSE LET c1 == [c EXCEPT !.interrupts_enabled = FALSE]
                      c2 == push(c1, c1.registers.pc)
                      s  == service_interrupt(c2.bus.interrupts, pending[1])
                      c3 == [c2 EXCEPT !.bus.interrupts = s.interrupts,
                                       !.registers.pc = s.address]
                  IN  [cpu |-> c3, cycles |-> Some(INTERRUPT_CYCLES)]

\* The opcode byte step() hands to the decoder, and whether it is prefixed
Fetch(c) ==
    LET first_byte == read_byte(c.bus, c.registers.pc)
        prefixed == first_byte = 203
    IN  [prefixed |-> prefixed,
         opcode_byte |-> IF prefixed
                         THEN read_byte(c.bus, (c.registers.pc + 1) % 65536)
                         ELSE first_byte]

wake_only_if_enabled(c) ==
    IF any_interrupt_pending(c.bus.interrupts) /\ c.interrupts_enabled
    THEN wake_from_halt(c) ELSE c

wake_if_pending(c) ==
    IF any_interrupt_pending(c.bus.interrupts) THEN wake_from_halt(c) ELSE c

halted_return_zero(c) ==
    [cpu |-> c, path |-> "halted", cycles |-> 0, instruction |-> None,
     halt_bug_active |-> FALSE]

halted_return(c) ==
    [cpu |-> c, path |-> "halted", cycles |-> 4, instruction |-> None,
     halt_bug_active |-> FALSE]

halt_bug_keep_pc(c) ==
    IF c.halt_bug THEN [c EXCEPT !.halt_bug = FALSE] ELSE c

apply_halt_bug(c) ==
    IF c.halt_bug
    THEN [c EXCEPT !.halt_bug = FALSE,
                   !.registers.pc = wrapping_sub16(c.registers.pc, 1)]
    ELSE c

apply_ei_delay(c) ==
    IF c.ei_pending
    THEN [c EXCEPT !.ei_pending = FALSE, !.interrupts_enabled = TRUE]
    ELSE c

unknown_instruction_as_nop(c) ==
    [cpu |-> [c EXCEPT !.registers.pc = wrapping_add16(c.registers.pc, 1)],
     path |-> "exec", cycles |-> 4, instruction |-> Some(Ins("NOP", <<>>)),
     halt_bug_active |-> FALSE]

\* panic!: step() does not return; cycles is 0 as no count is produced
unknown_instruction(c) ==
    [cpu |-> c, path |-> "panic", cycles |-> 0, instruction |-> None,
     halt_bug_active |-> FALSE]

CPU_step(c) ==
    LET c0 == wake_if_pending(c)
        h  == handle_interrupts(c0)
        fetched == Fetch(c0)
        decoded == from_byte(fetched.opcode_byte, fetched.prefixed)
    IN  IF h.cycles # None
        THEN [cpu |-> h.cpu, path |-> "dispatch", cycles |-> h.cycles[1],
              instruction |-> None, halt_bug_active |-> FALSE]
        ELSE IF c0.is_halted
        THEN halted_return(c0)
        ELSE IF decoded = None
        THEN unknown_instruction(c0)
        ELSE LET bug_active == c0.halt_bug
                 c1 == apply_halt_bug(c0)
                 r  == execute(c1, decoded[1])
                 c2 == [r.cpu EXCEPT !.registers.pc = r.next_pc]
                 c3 == apply_ei_delay(c2)
             IN  [cpu |-> c3, path |-> "exec", cycles |-> r.cycles,
                  instruction |-> decoded, halt_bug_active |-> bug_active]

\* How far past PC execute reads with the unchecked pc + 1 and pc + 2 of
\* read_next_byte and read_next_word
operand_reach(c, ins) ==
    CASE ins.name \in {"JP", "CALL"} -> IF should_jump(c, ins.arg[1]) THEN 2 ELSE 0
      [] ins.name \in {"JR", "ADDSP", "LDHLSP"} -> 1
      [] ins.name = "LD" /\ ins.arg[1] = "Byte" ->
            IF "A16I" \in {ins.arg[2], ins.arg[3]} THEN 2
            ELSE IF ins.arg[3] \in {"D8", "A8I"} \/ ins.arg[2] = "A8I" THEN 1
            ELSE 0
      [] ins.name = "LD" /\ ins.arg[1] = "Word" ->
            IF ins.arg[3] = "D16" \/ ins.arg[2] = "A16I" THEN 2 ELSE 0
      [] OTHER -> 0

\* This step() evaluates pc + 1 or pc + 2 beyond 0xFFFF: the second byte of
\* a CB-prefixed opcode, or an immediate operand
add_overflows(c) ==
    LET c0 == wake_if_pending(c)
        fetched == Fetch(c0)
        decoded == from_byte(fetched.opcode_byte, fetched.prefixed)
        c1 == apply_halt_bug(c0)
    IN  /\ handle_interrupts(c0).cycles = None
        /\ ~c0.is_halted
        /\ \/ fetched.prefixed /\ c0.registers.pc + 1 > 65535
           \/ /\ decoded # None
              /\ c1.registers.pc + operand_reach(c1, decoded[1]) > 65535

\* panic!("attempt to add with overflow"): step() does not return
overflow_panic(c) ==
    [cpu |-> c, path |-> "overflow", cycles |-> 0, instruction |-> None,
     halt_bug_active |-> FALSE]

\* step() as built: u16 addition panics on overflow with overflow checks on
\* (the debug profile) and wraps with them off (the release profile)
CPU_step_built(c, build) ==
    IF build = "debug" /\ add_overflows(c) THEN overflow_panic(c) ELSE CPU_step(c)

----
\* The CPU under its driver: step() calls, with interrupt requests raised by
\* the hardware between them.

Ops == {0, 118, 243, 251, 217, 195, 62, 255, 211}
TailOps == {0, 251}
HandlerOps == {217, 0}
IEs == {0, 4, 21}
SPs == {65534, 65296, 2}
ReqSources == {VBlank, TimerInt, Joypad}

RomImage(hb, p0, p1, p2) ==
    [i \in 1..259 |->
        CASE (i - 1) \in {64, 72, 80, 88, 96} -> hb
          [] i - 1 = 256 -> p0
          [] i - 1 = 257 -> p1
          [] i - 1 = 258 -> p2
          [] OTHER -> 0]

Cpu == [registers |-> registers, bus |-> bus, is_halted |-> is_halted,
        interrupts_enabled |-> interrupts_enabled, ei_pending |-> ei_pending,
        halt_bug |-> halt_bug]

NoObservation ==
    /\ panicked = FALSE
    /\ op = "new"
    /\ path = "none"
    /\ instruction = None
    /\ halt_bug_active = FALSE
    /\ woken = FALSE
    /\ cycles = 0
    /\ interrupt = FALSE
    /\ scen = None
    /\ held = None
    /\ written = None
    /\ returned = None
    /\ steps = 0
    /\ ticks = 0
    /\ writes = 0

Init ==
    \E hb \in HandlerOps, p0 \in Ops, p1 \in Ops, p2 \in TailOps, ie \in IEs, sp0 \in SPs :
        LET c == CPU_new(RomImage(hb, p0, p1, p2))
        IN  /\ registers = [c.registers EXCEPT !.sp = sp0]
            /\ bus = [c.bus EXCEPT !.interrupts = write_ie(c.bus.interrupts, ie)]
            /\ is_halted = c.is_halted
            /\ interrupts_enabled = c.interrupts_enabled
            /\ ei_pending = c.ei_pending
            /\ halt_bug = c.halt_bug
            /\ NoObservation

\* The fetch of this step, if it gets that far, meets a modelled opcode
FetchModelled(c) ==
    \/ CPU_step(c).path \in {"dispatch", "halted"}
    \/ /\ ~Fetch(c).prefixed
       /\ Fetch(c).opcode_byte \in Modelled
       /\ c.registers.pc < 65534

\* The CPU and what the caller observes once step() has ended as r
step_returns(r) ==
    /\ registers' = r.cpu.registers
    /\ bus' = r.cpu.bus
    /\ is_halted' = r.cpu.is_halted
    /\ interrupts_enabled' = r.cpu.interrupts_enabled
    /\ ei_pending' = r.cpu.ei_pending
    /\ halt_bug' = r.cpu.halt_bug
    /\ panicked' = (r.path \in {"panic", "overflow"})
    /\ path' = r.path
    /\ instruction' = r.instruction
    /\ halt_bug_active' = r.halt_bug_active
    /\ woken' = (is_halted /\ ~wake_if_pending(Cpu).is_halted)
    /\ cycles' = r.cycles

\* One call of step() on a CPU whose fetch is within `fetchable`
step_from(fetchable) ==
    /\ ~panicked
    /\ steps < MaxSteps
    /\ fetchable
    /\ \E r \in {CPU_step(Cpu)} : step_returns(r)
    /\ op' = "step"
    /\ steps' = steps + 1
    /\ UNCHANGED <<interrupt, scen, held, written, returned, ticks, writes>>

step == step_from(FetchModelled(Cpu))

raise_interrupt(i) ==
    /\ ~panicked
    /\ (bus.interrupts.interrupt_flag \div (2 ^ i)) % 2 = 0
    /\ bus' = [bus EXCEPT !.interrupts = request_interrupt(bus.interrupts, i)]
    /\ op' = "request_interrupt"
    /\ UNCHANGED <<registers, is_halted, interrupts_enabled, ei_pending, halt_bug,
                   panicked, path, instruction, halt_bug_active, woken, cycles,
                   interrupt, scen, held, written, returned, steps, ticks, writes>>

Next ==
    \/ step
    \/ \E i \in ReqSources : raise_interrupt(i)

Spec == Init /\ [][Next]_vars

----
\* The timer under arbitrary interleavings of tick_timer() and writes to its
\* four registers through the bus.

DivStarts == {12, 60, 252, 1020, 65532}
DivValues == {0, 167}
TimaValues == {254, 255, 37}
TmaValues == {66, 255}
TacValues == {5, 6, 1, 253}

\* The TAC-selected bit of the 16-bit counter, 0 when the enable bit is clear
SelectedBit(div, tac) ==
    IF (tac \div 4) % 2 = 0 THEN 0
    ELSE CASE tac % 4 = 0 -> (div \div 512) % 2
           [] tac % 4 = 1 -> (div \div 8) % 2
           [] tac % 4 = 2 -> (div \div 32) % 2
           [] tac % 4 = 3 -> (div \div 128) % 2

Falls(t, u) == SelectedBit(t.div, t.tac) = 1 /\ SelectedBit(u.div, u.tac) = 0

InitTimer ==
    \E d \in DivStarts :
        LET c == CPU_new(<<>>)
        IN  /\ registers = c.registers
            /\ bus = [c.bus EXCEPT !.timer.div = d]
            /\ is_halted = c.is_halted
            /\ interrupts_enabled = c.interrupts_enabled
            /\ ei_pending = c.ei_pending
            /\ halt_bug = c.halt_bug
            /\ NoObservation

HeldAfter(t, u, ticked) ==
    IF held = None \/ Falls(t, u) THEN None
    ELSE IF ticked THEN Some([value |-> held[1].value, n |-> held[1].n + 1])
    ELSE held

tick_timer_call ==
    /\ ticks < MaxTicks
    /\ \E r \in {tick_timer(bus)}, t \in {bus.timer} :
           /\ bus' = r.bus
           /\ interrupt' = r.interrupt
           /\ scen' = IF t.tac = 5 /\ t.tima = 255 /\ t.overflow_delay = None
                         /\ t.div % 16 = 15
                      THEN Some(0)
                      ELSE IF scen # None /\ scen[1] < 4 THEN Some(scen[1] + 1)
                      ELSE None
           /\ held' = HeldAfter(t, r.bus.timer, TRUE)
    /\ op' = "tick_timer"
    /\ ticks' = ticks + 1
    /\ UNCHANGED <<cpuVars, written, returned, writes>>

bus_write(name, addr, value) ==
    /\ writes < MaxWrites
    /\ bus' = write_byte(bus, addr, value)
    /\ op' = name
    /\ written' = Some(value)
    /\ scen' = None
    /\ writes' = writes + 1
    /\ UNCHANGED <<cpuVars, interrupt, returned, ticks>>

write_div_call ==
    \E v \in DivValues :
        /\ bus_write("write_div", 65284, v)
        /\ held' = HeldAfter(bus.timer, write_byte(bus, 65284, v).timer, FALSE)

write_tima_call ==
    \E v \in TimaValues :
        /\ bus_write("write_tima", 65285, v)
        /\ held' = IF bus.timer.overflow_delay # None
                   THEN Some([value |-> v, n |-> 0]) ELSE None

write_tma_call ==
    \E v \in TmaValues :
        /\ bus_write("write_tma", 65286, v)
        /\ held' = held

write_tac_call ==
    \E v \in TacValues :
        /\ bus_write("write_tac", 65287, v)
        /\ held' = HeldAfter(bus.timer, write_byte(bus, 65287, v).timer, FALSE)

NextTimer ==
    \/ tick_timer_call
    \/ write_div_call
    \/ write_tima_call
    \/ write_tma_call
    \/ write_tac_call

SpecTimer == InitTimer /\ [][NextTimer]_vars

----
\* The interrupt controller under arbitrary register writes, requests,
\* acknowledgements, services and queries.

IfValues == (0..31) \cup {100, 255}
IeValues == (0..31) \cup {228, 255}
Sources == {VBlank, LcdStat, TimerInt, Serial, Joypad}

InitInterrupts ==
    LET c == CPU_new(<<>>)
    IN  /\ registers = c.registers
        /\ bus = c.bus
        /\ is_halted = c.is_halted
        /\ interrupts_enabled = c.interrupts_enabled
        /\ ei_pending = c.ei_pending
        /\ halt_bug = c.halt_bug
        /\ NoObservation

controller_call(name, ic, argument, result) ==
    /\ bus' = [bus EXCEPT !.interrupts = ic]
    /\ op' = name
    /\ written' = argument
    /\ returned' = result
    /\ UNCHANGED <<cpuVars, interrupt, scen, held, ticks, writes>>

write_if_call ==
    \E v \in IfValues, direct \in BOOLEAN :
        controller_call("write_if",
                        IF direct THEN write_if(bus.interrupts, v)
                        ELSE write_byte(bus, 65295, v).interrupts,
                        Some(v), None)

write_ie_call ==
    \E v \in IeValues, direct \in BOOLEAN :
        controller_call("write_ie",
                        IF direct THEN write_ie(bus.interrupts, v)
                        ELSE write_byte(bus, 65535, v).interrupts,
                        Some(v), None)

request_interrupt_call ==
    \E i \in Sources :
        controller_call("request_interrupt", request_interrupt(bus.interrupts, i),
                        Some(i), None)

acknowledge_interrupt_call ==
    \E i \in Sources :
        controller_call("acknowledge_interrupt", acknowledge_interrupt(bus.interrupts, i),
                        Some(i), None)

service_interrupt_call ==
    \E i \in Sources :
        \E r \in {service_interrupt(bus.interrupts, i)} :
            controller_call("service_interrupt", r.interrupts, Some(i), Some(r.address))

get_pending_interrupt_call ==
    controller_call("get_pending_interrupt", bus.interrupts, None,
                    Some(get_pending_interrupt(bus.interrupts)))

any_interrupt_pending_call ==
    controller_call("any_interrupt_pending", bus.interrupts, None,
                    Some(any_interrupt_pending(bus.interrupts)))

read_if_call ==
    controller_call("read_if", bus.interrupts, None, Some(read_byte(bus, 65295)))

NextInterrupts ==
    \/ write_if_call
    \/ write_ie_call
    \/ request_interrupt_call
    \/ acknowledge_interrupt_call
    \/ service_interrupt_call
    \/ get_pending_interrupt_call
    \/ any_interrupt_pending_call
    \/ read_if_call

SpecInterrupts == InitInterrupts /\ [][NextInterrupts]_vars

----
\* The bus under arbitrary writes, and the serial port under writes to its two
\* registers and clearing of the output buffer.

MaxBusWrites == 2
MaxSerialWrites == 4

BusAddrs == {336, 32767, 32768, 40960, 49152, 49443, 56831, 56832, 57344, 57635,
             65023, 65024, 65183, 65184, 65279, 65281, 65285, 65295, 65408, 65535}
BusValues == {65, 194}
SerialData == {72, 105, 0}
SerialControl == {129, 128, 1, 255}

BusRom == [i \in 1..337 |-> IF i = 337 THEN 60 ELSE 0]

InitBus ==
    LET c == CPU_new(BusRom)
    IN  /\ registers = c.registers
        /\ bus = c.bus
        /\ is_halted = c.is_halted
        /\ interrupts_enabled = c.interrupts_enabled
        /\ ei_pending = c.ei_pending
        /\ halt_bug = c.halt_bug
        /\ NoObservation

store(addrs, values, bound) ==
    \E a \in addrs, v \in values :
        /\ writes < bound
        /\ bus' = write_byte(bus, a, v)
        /\ op' = "write_byte"
        /\ written' = Some(<<a, v>>)
        /\ writes' = writes + 1
        /\ UNCHANGED <<cpuVars, interrupt, scen, held, returned, ticks>>

write_byte_call == store(BusAddrs, BusValues, MaxBusWrites)

NextBus == write_byte_call

SpecBus == InitBus /\ [][NextBus]_vars

clear_serial_output(b) == [b EXCEPT !.serial_output = <<>>]

serial_data_write == store({SERIAL_TRANSFER_DATA}, SerialData, MaxSerialWrites)

serial_control_write == store({SERIAL_TRANSFER_CONTROL}, SerialControl, MaxSerialWrites)

clear_serial_output_call ==
    /\ writes < MaxSerialWrites
    /\ bus.serial_output # <<>>
    /\ bus' = clear_serial_output(bus)
    /\ op' = "clear_serial_output"
    /\ written' = None
    /\ writes' = writes + 1
    /\ UNCHANGED <<cpuVars, interrupt, scen, held, returned, ticks>>

NextSerial ==
    \/ serial_data_write
    \/ serial_control_write
    \/ clear_serial_output_call

SpecSerial == InitBus /\ [][NextSerial]_vars

----
\* The stack: push() and pop() as PUSH, POP, CALL, RET, RST and dispatch call
\* them, for stack pointers in every region of the address space.

MaxStackOps == 3

StackSPs == {65534, 53248, 57346, 40962, 65026, 32770, 338, 65296, 65280, 65283,
             65286, 1, 0}
StackValues == {0, 4660, 43981, 65535, 255, 32769}

InitStack ==
    \E sp0 \in StackSPs :
        LET c == CPU_new(BusRom)
        IN  /\ registers = [c.registers EXCEPT !.sp = sp0]
            /\ bus = c.bus
            /\ is_halted = c.is_halted
            /\ interrupts_enabled = c.interrupts_enabled
            /\ ei_pending = c.ei_pending
            /\ halt_bug = c.halt_bug
            /\ NoObservation

push_call ==
    \E x \in StackValues :
        \E c \in {push(Cpu, x)} :
            /\ writes < MaxStackOps
            /\ registers' = c.registers
            /\ bus' = c.bus
            /\ op' = "push"
            /\ written' = Some(x)
            /\ returned' = None
            /\ writes' = writes + 1
            /\ UNCHANGED <<is_halted, interrupts_enabled, ei_pending, halt_bug, panicked,
                           path, instruction, halt_bug_active, woken, cycles, steps,
                           interrupt, scen, held, ticks>>

pop_call ==
    \E r \in {pop(Cpu)} :
        /\ writes < MaxStackOps
        /\ registers' = r.cpu.registers
        /\ bus' = r.cpu.bus
        /\ op' = "pop"
        /\ returned' = Some(r.value)
        /\ writes' = writes + 1
        /\ UNCHANGED <<is_halted, interrupts_enabled, ei_pending, halt_bug, panicked,
                       path, instruction, halt_bug_active, woken, cycles, steps,
                       interrupt, scen, held, written, ticks>>

NextStack ==
    \/ push_call
    \/ pop_call

SpecStack == InitStack /\ [][NextStack]_vars

----
\* A fresh CPU running a short program: LD A,d8 followed by an arithmetic
\* opcode and one more byte.

ProgramImmediates == {5, 0, 15, 255, 128, 8}
ProgramOpcodes == {198, 128, 135, 134}
ProgramOperands == {3, 0, 118}

ProgramRom(d, o, e) ==
    [i \in 1..260 |->
        CASE i - 1 = 256 -> 62
          [] i - 1 = 257 -> d
          [] i - 1 = 258 -> o
          [] i - 1 = 259 -> e
          [] OTHER -> 0]

InitProgram ==
    \E d \in ProgramImmediates, o \in ProgramOpcodes, e \in ProgramOperands :
        LET c == CPU_new(ProgramRom(d, o, e))
        IN  /\ registers = c.registers
            /\ bus = c.bus
            /\ is_halted = c.is_halted
            /\ interrupts_enabled = c.interrupts_enabled
            /\ ei_pending = c.ei_pending
            /\ halt_bug = c.halt_bug
            /\ NoObservation

NextProgram == step

SpecProgram == InitProgram /\ [][NextProgram]_vars

----
\* The decoder called on every opcode byte, prefixed or not.

InitDecode ==
    LET c == CPU_new(BusRom)
    IN  /\ registers = c.registers
        /\ bus = c.bus
        /\ is_halted = c.is_halted
        /\ interrupts_enabled = c.interrupts_enabled
        /\ ei_pending = c.ei_pending
        /\ halt_bug = c.halt_bug
        /\ NoObservation

decode_instruction_call ==
    \E byte \in Byte, prefixed \in BOOLEAN :
        /\ op' = "decode_instruction"
        /\ written' = Some(<<byte, prefixed>>)
        /\ returned' = decode_instruction(byte, prefixed)
        /\ UNCHANGED <<registers, bus, is_halted, interrupts_enabled, ei_pending,
                       halt_bug, panicked, path, instruction, halt_bug_active, woken,
                       cycles, steps, interrupt, scen, held, ticks, writes>>

NextDecode == decode_instruction_call

SpecDecode == InitDecode /\ [][NextDecode]_vars

----
\* A CPU whose registers hold chosen operands, stepped over one arithmetic
\* instruction at 0x0100.

MaxAluSteps == 1

AluValues == {0, 1, 9, 10, 15, 16, 58, 127, 128, 153, 154, 198, 240, 255}
AluOpcodes == {128, 135, 136, 143, 144, 151, 152, 159, 184, 191}
AluFlags == {0, 16, 224, 240}

IncDecOpcodes == {4, 60, 5, 61, 3, 11, 35, 43, 51, 59}
IncDecFlags == {0, 80, 160, 240}
IncDecLows == {0, 255}
IncDecSPs == {0, 65535, 49152}

AddSpOpcodes == {232, 248}
AddSpSPs == {0, 1, 15, 240, 248, 255, 256, 4095, 49167, 65520, 65534, 65535}
AddSpOffsets == {0, 1, 8, 15, 16, 113, 127, 128, 240, 241, 254, 255}
AddSpFlags == {0, 240}

DaaFlags == {0, 16, 32, 48, 64, 80, 96, 112, 128, 144, 160, 176, 192, 208, 224, 240}

AluRom(o, i) ==
    [k \in 1..258 |-> CASE k - 1 = 256 -> o [] k - 1 = 257 -> i [] OTHER -> 0]

\* CPU::new on the program, with A = a, B = H = b, C = L = lo, F = f, SP = sp0
AluCpu(o, i, a, b, lo, f, sp0) ==
    LET c == CPU_new(AluRom(o, i))
    IN  [c EXCEPT !.registers = [c.registers EXCEPT !.a = a, !.b = b, !.h = b,
                                                    !.c = lo, !.l = lo,
                                                    !.f = FlagsRegister_from_byte(f),
                                                    !.sp = sp0]]

AluStart(c) ==
    /\ registers = c.registers
    /\ bus = c.bus
    /\ is_halted = c.is_halted
    /\ interrupts_enabled = c.interrupts_enabled
    /\ ei_pending = c.ei_pending
    /\ halt_bug = c.halt_bug
    /\ NoObservation

InitAlu ==
    \E o \in AluOpcodes, a \in AluValues, b \in AluValues, f \in AluFlags :
        AluStart(AluCpu(o, 0, a, b, 19, f, 65534))

InitIncDec ==
    \E o \in IncDecOpcodes, v \in AluValues, lo \in IncDecLows, f \in IncDecFlags,
       sp0 \in IncDecSPs :
        AluStart(AluCpu(o, 0, v, v, lo, f, sp0))

InitAddSp ==
    \E o \in AddSpOpcodes, sp0 \in AddSpSPs, i \in AddSpOffsets, f \in AddSpFlags :
        AluStart(AluCpu(o, i, 1, 0, 77, f, sp0))

InitDaa ==
    \E a \in Byte, f \in DaaFlags : AluStart(AluCpu(39, 0, a, 0, 19, f, 65534))

alu_step ==
    /\ steps < MaxAluSteps
    /\ step

NextAlu == alu_step

SpecAlu == InitAlu /\ [][NextAlu]_vars

SpecIncDec == InitIncDec /\ [][NextAlu]_vars

SpecAddSp == InitAddSp /\ [][NextAlu]_vars

SpecDaa == InitDaa /\ [][NextAlu]_vars

----
\* A CPU stepped over one conditional JP, JR, CALL or RET at 0x0100, with a
\* return address waiting on the stack.

BranchOpcodes == {194, 202, 210, 218, 32, 40, 48, 56, 196, 204, 212, 220,
                  192, 200, 208, 216}
BranchFlags == {0, 128, 16, 144, 96, 240}
BranchLows == {0, 5, 128, 254}
BranchHighs == {1, 192}
BranchSPs == {65534, 53250, 2}

BranchRom(o, lo, hi) ==
    [k \in 1..259 |->
        CASE k - 1 = 256 -> o [] k - 1 = 257 -> lo [] k - 1 = 258 -> hi [] OTHER -> 0]

InitBranch ==
    \E o \in BranchOpcodes, f \in BranchFlags, lo \in BranchLows, hi \in BranchHighs,
       sp0 \in BranchSPs :
        LET c == CPU_new(BranchRom(o, lo, hi))
            b1 == write_byte(write_byte(c.bus, sp0, hi), wrapping_add16(sp0, 1), lo)
        IN  AluStart([c EXCEPT !.registers.f = FlagsRegister_from_byte(f),
                               !.registers.sp = sp0,
                               !.bus = b1])

SpecBranch == InitBranch /\ [][NextAlu]_vars

----
\* A CPU stepped from 0x0100 over each opcode byte, prefixed or not, with
\* the timer interrupt raised at any moment: every instruction the decoder
\* produces is executed, EI and HALT lead on to dispatches and halted steps.

MaxCycleSteps == 2
CycleOperands == {0, 2, 192}
CycleFlags == {0, 240}
CycleIEs == {0, 4}

\* The operand bytes of this step are read below 0x10000
FetchInRange(c) ==
    \/ CPU_step(c).path \in {"dispatch", "halted"}
    \/ c.registers.pc < 65534

InitCycles ==
    \E o \in Byte, f \in CycleFlags, ie \in CycleIEs :
        \E i \in IF o = 203 THEN Byte ELSE CycleOperands :
            LET c == CPU_new(AluRom(o, i))
            IN  AluStart([c EXCEPT !.registers.f = FlagsRegister_from_byte(f),
                                   !.bus.interrupts = write_ie(c.bus.interrupts, ie)])

cycle_step ==
    /\ steps < MaxCycleSteps
    /\ step_from(FetchInRange(Cpu))

NextCycles ==
    \/ cycle_step
    \/ raise_interrupt(TimerInt)

SpecCycles == InitCycles /\ [][NextCycles]_vars

----
\* The register file under direct calls of the pair setters, and under a CPU
\* step over POP AF at 0x0100 with an arbitrary word waiting on the stack.

MaxRegisterOps == 1
PairHighs == {0, 1, 128, 255}
PairLows == {0, 1, 15, 16, 90, 128, 240, 255}
PairValues == {hi * 256 + lo : hi \in PairHighs, lo \in PairLows}
PoppedValues == {0, 15, 43605, 65535}

InitRegisters ==
    \E v \in PoppedValues :
        LET c == CPU_new(AluRom(241, 0))
            b1 == write_byte(write_byte(c.bus, 49152, v % 256), 49153, v \div 256)
        IN  AluStart([c EXCEPT !.registers.sp = 49152, !.bus = b1])

\* set_bc / set_de / set_hl / set_af called with v
set_pair_call(name) ==
    \E v \in PairValues :
        /\ writes < MaxRegisterOps
        /\ registers' = CASE name = "set_bc" -> set_bc(registers, v)
                          [] name = "set_de" -> set_de(registers, v)
                          [] name = "set_hl" -> set_hl(registers, v)
                          [] name = "set_af" -> set_af(registers, v)
        /\ op' = name
        /\ written' = Some(v)
        /\ returned' = None
        /\ writes' = writes + 1
        /\ UNCHANGED <<bus, is_halted, interrupts_enabled, ei_pending, halt_bug, panicked,
                       path, instruction, halt_bug_active, woken, cycles, steps,
                       interrupt, scen, held, ticks>>

pop_af_step ==
    /\ steps < MaxRegisterOps
    /\ step_from(FetchInRange(Cpu))

NextRegisters ==
    \/ set_pair_call("set_bc")
    \/ set_pair_call("set_de")
    \/ set_pair_call("set_hl")
    \/ set_pair_call("set_af")
    \/ pop_af_step

SpecRegisters == InitRegisters /\ [][NextRegisters]_vars

----
\* A bus built from a ROM image of a few bytes, then read across the ROM
\* region; held keeps the image the bus was built from.

MaxRomLen == 3
RomBytes == {0, 60, 255}
RomImages == UNION {[1..n -> RomBytes] : n \in 0..MaxRomLen}
RomReadAddrs == {0, 1, 2, 3, 4, 256, 16384, 32767}

InitRom ==
    \E rom \in RomImages :
        LET c == CPU_new(rom)
        IN  /\ registers = c.registers
            /\ bus = c.bus
            /\ is_halted = c.is_halted
            /\ interrupts_enabled = c.interrupts_enabled
            /\ ei_pending = c.ei_pending
            /\ halt_bug = c.halt_bug
            /\ panicked = FALSE
            /\ op = "new"
            /\ path = "none"
            /\ instruction = None
            /\ halt_bug_active = FALSE
            /\ woken = FALSE
            /\ cycles = 0
            /\ interrupt = FALSE
            /\ scen = None
            /\ held = Some(rom)
            /\ written = None
            /\ returned = None
            /\ steps = 0
            /\ ticks = 0
            /\ writes = 0

read_byte_call ==
    \E a \in RomReadAddrs :
        /\ op' = "read_byte"
        /\ written' = Some(a)
        /\ returned' = Some(read_byte(bus, a))
        /\ UNCHANGED <<registers, bus, is_halted, interrupts_enabled, ei_pending,
                       halt_bug, panicked, path, instruction, halt_bug_active, woken,
                       cycles, interrupt, scen, held, steps, ticks, writes>>

NextRom == read_byte_call

SpecRom == InitRom /\ [][NextRom]_vars

----
\* A CPU whose program starts with EI and whose interrupt handlers start with
\* NOP, DI, EI or RETI, with several sources enabled and raised at any moment.

NestedHandlerOps == {0, 243, 251, 217}
NestedOps == {0, 243, 118}
NestedIEs == {5, 21}

InitNested ==
    \E hb \in NestedHandlerOps, p1 \in NestedOps, p2 \in TailOps, ie \in NestedIEs :
        LET c == CPU_new(RomImage(hb, 251, p1, p2))
        IN  AluStart([c EXCEPT !.bus.interrupts = write_ie(c.bus.interrupts, ie)])

SpecNested == InitNested /\ [][Next]_vars

----
\* The CPU under its driver (main.rs:39-61): one step(), then tick_timer()
\* once per cycle step() reported, repeated. The program is a HALT at 0x0100
\* run with the timer enabled and its interrupt enabled in IE; the driver is
\* followed until the CPU has left the halted state.

MaxDriverSteps == 300
DriverTacs == {4, 5, 6, 7}
DriverTimas == {254, 255}
DriverTmas == {171}
DriverDivs == {12, 65532}
DriverIEs == {4, 5}

InitDriver ==
    \E tac \in DriverTacs, tma \in DriverTmas, d \in DriverDivs, ie \in DriverIEs,
       ime \in BOOLEAN :
      \E tima \in IF tac = 4 THEN {255} ELSE DriverTimas :
        LET c == CPU_new(AluRom(118, 0))
            b1 == write_byte(c.bus, 65287, tac)
            b2 == write_byte(write_byte(b1, 65286, tma), 65285, tima)
            b3 == write_byte(b2, 65535, ie)
        IN  AluStart([c EXCEPT !.bus = [b3 EXCEPT !.timer.div = d,
                                                  !.timer.prev_timer_bit =
                                                      calculate_timer_bit(
                                                          [b3.timer EXCEPT !.div = d])],
                               !.interrupts_enabled = ime])

\* The driver's next call is step(): every tick of the previous step is made
step_due ==
    /\ ~panicked
    /\ steps < MaxDriverSteps
    /\ steps = 0 \/ is_halted
    /\ ticks = cycles

\* The driver's next call is tick_timer()
tick_due == ticks < cycles

\* cpu.step()
driver_step ==
    /\ step_due
    /\ \E r \in {CPU_step(Cpu)} : step_returns(r)
    /\ op' = "step"
    /\ steps' = steps + 1
    /\ ticks' = 0
    /\ UNCHANGED <<interrupt, scen, held, written, returned, writes>>

\* cpu.bus.tick_timer(), called t_cycles times after the step
driver_tick ==
    /\ tick_due
    /\ \E r \in {tick_timer(bus)} :
           /\ bus' = r.bus
           /\ interrupt' = r.interrupt
    /\ op' = "tick_timer"
    /\ ticks' = ticks + 1
    /\ UNCHANGED <<registers, is_halted, interrupts_enabled, ei_pending, halt_bug,
                   panicked, path, instruction, halt_bug_active, woken, cycles,
                   scen, held, written, returned, steps, writes>>

NextDriver ==
    \/ driver_step
    \/ driver_tick

\* The driver's loop runs on: the call that is due is eventually made. A
\* step of the driver that advances steps is driver_step and one that
\* advances ticks is driver_tick.
SpecDriver ==
    /\ InitDriver
    /\ [][NextDriver]_vars
    /\ WF_steps(step_due /\ steps' = steps + 1)
    /\ WF_ticks(tick_due /\ ticks' = ticks + 1)

----
\* The CPU under its driver on a program of EI and NOPs whose interrupt
\* handlers start with RETI or NOP, the timer running towards an overflow.
\* held keeps what the last dispatch interrupted: PC, SP and the source.

MaxTripSteps == 6
TripHandlerOps == {217, 0}
TripTimas == {254, 255}
TripTmas == {0, 255}
TripDivs == {0, 12}
TripIEs == {4, 5}
TripIFs == {0, 1}
TripSPs == {65534, 53250, 2}

InitTrip ==
    \E hb \in TripHandlerOps, tima \in TripTimas, tma \in TripTmas, d \in TripDivs,
       ie \in TripIEs, if0 \in TripIFs, sp0 \in TripSPs :
        LET c == CPU_new(RomImage(hb, 251, 0, 0))
            b1 == write_byte(c.bus, 65287, 5)
            b2 == write_byte(write_byte(b1, 65286, tma), 65285, tima)
            b3 == write_byte(write_byte(b2, 65535, ie), 65295, if0)
        IN  AluStart([c EXCEPT !.bus = [b3 EXCEPT !.timer.div = d,
                                                  !.timer.prev_timer_bit =
                                                      calculate_timer_bit(
                                                          [b3.timer EXCEPT !.div = d])],
                               !.registers.sp = sp0])

\* cpu.step(), called once every tick of the previous step has been made
trip_step ==
    /\ ~panicked
    /\ steps < MaxTripSteps
    /\ ticks = cycles
    /\ FetchInRange(Cpu)
    /\ \E r \in {CPU_step(Cpu)} :
           /\ step_returns(r)
           /\ held' = IF r.path = "dispatch"
                      THEN Some([pc |-> registers.pc, sp |-> registers.sp,
                                 source |-> (r.cpu.registers.pc - 64) \div 8])
                      ELSE held
    /\ op' = "step"
    /\ steps' = steps + 1
    /\ ticks' = 0
    /\ UNCHANGED <<interrupt, scen, written, returned, writes>>

NextTrip ==
    \/ trip_step
    \/ driver_tick

SpecTrip == InitTrip /\ [][NextTrip]_vars

----
\* A CPU stepped once with PC at the top of the address space, the opcode at
\* PC and its operands around 0xFFFF and 0x0000; scen keeps the build
\* profile, which decides what an overflowing u16 addition does.

MaxWrapSteps == 1
Builds == {"debug", "release"}
WrapPCs == {65533, 65534, 65535}
WrapOpcodes == {0, 203, 62, 195, 194, 24, 250, 224, 8, 54, 232, 118}
WrapOperands == {0, 16}
WrapFlags == {0, 128}

InitWrap ==
    \E build \in Builds, pc0 \in WrapPCs, o \in WrapOpcodes, v \in WrapOperands,
       f \in WrapFlags :
        LET c == CPU_new(<<2, 2>>)
            at(a) == IF a = pc0 THEN o ELSE v
            b1 == write_byte(write_byte(write_byte(c.bus, 65533, at(65533)),
                                        65534, at(65534)), 65535, at(65535))
        IN  /\ registers = [c.registers EXCEPT !.pc = pc0,
                                               !.f = FlagsRegister_from_byte(f)]
            /\ bus = b1
            /\ is_halted = c.is_halted
            /\ interrupts_enabled = c.interrupts_enabled
            /\ ei_pending = c.ei_pending
            /\ halt_bug = c.halt_bug
            /\ panicked = FALSE
            /\ op = "new"
            /\ path = "none"
            /\ instruction = None
            /\ halt_bug_active = FALSE
            /\ woken = FALSE
            /\ cycles = 0
            /\ interrupt = FALSE
            /\ scen = Some(build)
            /\ held = None
            /\ written = None
            /\ returned = None
            /\ steps = 0
            /\ ticks = 0
            /\ writes = 0

wrap_step ==
    /\ ~panicked
    /\ steps < MaxWrapSteps
    /\ \E r \in {CPU_step_built(Cpu, scen[1])} : step_returns(r)
    /\ op' = "step"
    /\ steps' = steps + 1
    /\ UNCHANGED <<interrupt, scen, held, written, returned, ticks, writes>>

NextWrap == wrap_step

SpecWrap == InitWrap /\ [][NextWrap]_vars

----
\* Vocabulary of the properties

IF_ == bus.interrupts.interrupt_flag
IE_ == bus.interrupts.interrupt_enable

\* Sources whose IF and IE bits are both set: (IF & IE & 0x1F) as a set
PendingSet == {i \in 0..4 : (IF_ \div (2 ^ i)) % 2 = 1 /\ (IE_ \div (2 ^ i)) % 2 = 1}

HighestPriority == CHOOSE i \in PendingSet : \A j \in PendingSet : i <= j

ClearBit(x, i) == IF (x \div (2 ^ i)) % 2 = 1 THEN x - 2 ^ i ELSE x

SetBit(x, i) == IF (x \div (2 ^ i)) % 2 = 1 THEN x ELSE x + 2 ^ i

StepTaken == op' = "step" /\ steps' = steps + 1

TickTaken == op' = "tick_timer" /\ ticks' = ticks + 1

WriteTaken(name) == op' = name /\ writes' = writes + 1

PlainRam(a) == a \in 49152..57343 \/ a \in 65408..65534

Mnemonic(byte) ==
    CASE byte = 0 -> "NOP"
      [] byte = 118 -> "HALT"
      [] byte = 243 -> "DI"
      [] byte = 251 -> "EI"
      [] byte = 217 -> "RETI"
      [] byte = 195 -> "JP"
      [] byte = 62 -> "LD"
      [] byte = 255 -> "RST"
      [] OTHER -> "?"

\* Length of an instruction that falls through to its successor, 0 for a transfer
SeqLen(ins) ==
    CASE ins.name \in {"NOP", "HALT", "DI", "EI"} -> 1
      [] ins.name = "LD" -> 2
      [] OTHER -> 0

----
\* C1: a step() entered with IME set and (IF & IE & 0x1F) # 0 executes no
\* instruction: it clears IME, writes PC's high byte at SP-1 and then its low
\* byte at SP-2 (through the bus, so a stack in ROM drops them and a stack over
\* 0xFF0F hits IF), leaves SP two lower, clears exactly the IF bit of the
\* lowest-numbered pending source, sets PC to 0x40 + 8 * source, returns 20.
C1_InterruptDispatch ==
    [][ (StepTaken /\ interrupts_enabled /\ PendingSet # {}) =>
        LET src == HighestPriority
            sp1 == (registers.sp + 65535) % 65536
            sp2 == (registers.sp + 65534) % 65536
            hi  == registers.pc \div 256
            lo  == registers.pc % 256
            b1  == write_byte(write_byte(bus, sp1, hi), sp2, lo)
        IN  /\ path' = "dispatch"
            /\ instruction' = None
            /\ ~interrupts_enabled'
            /\ registers' = [registers EXCEPT !.sp = sp2, !.pc = 64 + 8 * src]
            /\ bus' = [b1 EXCEPT !.interrupts.interrupt_flag =
                                    ClearBit(b1.interrupts.interrupt_flag, src)]
            /\ (PlainRam(sp1) /\ PlainRam(sp2) =>
                    /\ MemGet(bus'.memory, sp1) = hi
                    /\ MemGet(bus'.memory, sp2) = lo
                    /\ bus'.interrupts.interrupt_flag = IF_ - 2 ^ src)
            /\ cycles' = 20
            /\ ~is_halted'
            /\ UNCHANGED <<ei_pending, halt_bug>>
      ]_vars

\* C1 witness: the Timer source was dispatched while Joypad, enabled and
\* requested too, stays pending; the return address sits on a stack in high RAM
C1_Witness ==
    /\ op = "step"
    /\ path = "dispatch"
    /\ registers.pc = 80
    /\ registers.sp = 65532
    /\ MemGet(bus.memory, 65533) = 1
    /\ 4 \in PendingSet

\* C2: executing EI with IME clear leaves IME clear at the end of that step()
\* (the enable is deferred past the following instruction).
C2_DeferredEI ==
    [][ (StepTaken /\ path' = "exec" /\ instruction' = Some(Ins("EI", <<>>))
            /\ ~interrupts_enabled)
        => ~interrupts_enabled' ]_vars

\* C3 as stated: the step() taken with the HaltBug latch set clears the latch
\* and ends with PC one less than the same step would end with the latch clear.
C3_OneLessThanWithoutBug ==
    [][ (StepTaken /\ halt_bug /\ path' = "exec") =>
        /\ ~halt_bug'
        /\ registers'.pc =
              wrapping_sub16(CPU_step([Cpu EXCEPT !.halt_bug = FALSE]).cpu.registers.pc, 1)
      ]_vars

\* C3 amended: HALT executed with IME clear and an interrupt pending leaves
\* the CPU running with HaltBug set.  The next step() cannot dispatch; it
\* decodes the byte at PC, clears the latch, decrements PC and executes, so
\* operands are read from that same byte on.  An instruction that falls
\* through ends one byte short (PC + length - 1); a transfer ends at its
\* target.  The latch is set again exactly when the instruction is HALT.
\* A step() entered with the latch clear advances a fall-through instruction
\* by its full length.
C3_HaltBug ==
    [][ StepTaken =>
        /\ (path' = "exec" /\ instruction' = Some(Ins("HALT", <<>>))
                /\ ~interrupts_enabled /\ PendingSet # {}
              => ~is_halted' /\ halt_bug')
        /\ (halt_bug => path' \in {"exec", "panic"})
        /\ halt_bug_active' = (halt_bug /\ path' = "exec")
        /\ (halt_bug /\ path' = "exec" =>
              LET ins == instruction'[1]
                  b0  == read_byte(bus, registers.pc)
                  b1  == read_byte(bus, (registers.pc + 1) % 65536)
              IN  /\ ins.name = Mnemonic(b0)
                  /\ halt_bug' = (ins.name = "HALT")
                  /\ (SeqLen(ins) > 0 =>
                        registers'.pc = (registers.pc + SeqLen(ins) - 1) % 65536)
                  /\ (ins.name = "LD" => registers'.a = b0)
                  /\ (ins.name = "JP" => registers'.pc = b0 + 256 * b1)
                  /\ (ins.name = "RST" => registers'.pc = 56))
        /\ (~halt_bug /\ path' = "exec" /\ SeqLen(instruction'[1]) > 0 =>
              registers'.pc = (registers.pc + SeqLen(instruction'[1])) % 65536)
      ]_vars

\* C3 witness: HALT at 0x0100 armed the latch and the LD A,d8 that follows was
\* executed one byte back: it loaded its own opcode and PC ends at 0x0102
C3_Witness ==
    /\ op = "step"
    /\ halt_bug_active
    /\ instruction = Some(Ins("LD", <<"Byte", "A", "D8">>))
    /\ registers.a = 62
    /\ registers.pc = 258
    /\ ~halt_bug

C5_WakeRegardlessOfIME ==
    [][ (StepTaken /\ is_halted /\ PendingSet # {} /\ ~interrupts_enabled) =>
        /\ ~is_halted'
        /\ woken'
        /\ path' \in {"exec", "panic"}
        /\ (path' = "exec" =>
              LET ins == instruction'[1]
              IN  /\ ins.name = Mnemonic(read_byte(bus, registers.pc))
                  /\ (ins.name # "RST" => bus' = bus)
                  /\ (ins.name \notin {"RST", "RETI"} => registers'.sp = registers.sp)
                  /\ (ins.name \notin {"EI", "RETI"} => ~interrupts_enabled'))
        /\ (path' = "panic" => bus' = bus /\ registers' = registers)
      ]_vars

\* C5 witness: a halted CPU with IME clear was woken by a request and ran a NOP
C5_Witness ==
    /\ op = "step"
    /\ woken
    /\ path = "exec"
    /\ instruction = Some(Ins("NOP", <<>>))
    /\ ~interrupts_enabled
    /\ ~is_halted
    /\ PendingSet # {}

C7_DelayedReload ==
    scen # None =>
        IF scen[1] < 4
        THEN bus.timer.tima = 0 /\ ~interrupt
        ELSE /\ interrupt
             /\ bus.timer.tima = bus.timer.tma
             /\ (IF_ \div 4) % 2 = 1

\* C7 witness: the fourth tick after the overflow reloaded a non-zero TMA
C7_Witness ==
    /\ scen = Some(4)
    /\ op = "tick_timer"
    /\ bus.timer.tma = 66
    /\ bus.timer.tima = 66

\* C8: tick() returns true exactly on the tick that completes a deferred reload
\* (the countdown stood at 1), and tick_timer() sets IF bit 2 on exactly those
\* ticks and leaves IF as it was on every other tick.
C8_TimerInterruptSignal ==
    [][ TickTaken =>
        /\ interrupt' = (bus.timer.overflow_delay = Some(1))
        /\ bus'.interrupts.interrupt_flag = (IF interrupt' THEN SetBit(IF_, 2) ELSE IF_)
        /\ bus'.interrupts.interrupt_enable = IE_
      ]_vars

\* C8 witness: a tick completed a reload and the Timer bit of IF is set
C8_Witness ==
    /\ op = "tick_timer"
    /\ interrupt
    /\ bus.timer.overflow_delay = None
    /\ IF_ = 228

\* C9: after a TIMA write made while a reload was pending, and until the
\* selected bit next falls (or TIMA is written again), TIMA holds the written
\* value, no reload is pending and no tick returns true.
C9_TimaWriteCancelsReload ==
    held # None =>
        /\ bus.timer.tima = held[1].value
        /\ bus.timer.overflow_delay = None
        /\ (op = "tick_timer" => ~interrupt)

\* C9 witness: five ticks after the cancelling write, past the point where the
\* reload would have completed, TIMA still holds the written value, not TMA
C9_Witness ==
    /\ held # None
    /\ held[1].n >= 5
    /\ held[1].value = 254
    /\ bus.timer.tma = 66
    /\ op = "tick_timer"

\* C10: TIMA after a tick is TIMA before it (TMA if a reload completes on the
\* tick), plus one modulo 256 exactly when the TAC-selected counter bit goes
\* from 1 to 0; a DIV or TAC write increments it by one exactly when the write
\* makes the selected bit go from 1 to 0; a TIMA write sets it to the written
\* value; a TMA write leaves it.  The bit reads 0 while the enable bit is clear.
C10_TimaChangeRule ==
    [][ LET t == bus.timer
            u == bus'.timer
            inc(x) == IF Falls(t, u) THEN (x + 1) % 256 ELSE x
        IN  /\ (TickTaken =>
                  u.tima = inc(IF t.overflow_delay = Some(1) THEN t.tma ELSE t.tima))
            /\ (WriteTaken("write_div") \/ WriteTaken("write_tac") => u.tima = inc(t.tima))
            /\ (WriteTaken("write_tima") => u.tima = written'[1])
            /\ (WriteTaken("write_tma") => u.tima = t.tima)
      ]_vars

\* C10 witness: with no tick at all, a TAC write that switched the selected bit
\* from 1 to 0 incremented the TIMA value 0x25 written before it
C10_Witness ==
    /\ op = "write_tac"
    /\ ticks = 0
    /\ bus.timer.tima = 38
    /\ bus.timer.div = 12

----
\* C11: a write of any value to DIV (0xFF04) zeroes the 16-bit counter, so DIV
\* reads 0, and re-evaluates the edge at once: if the sampled bit was 1, TIMA
\* is incremented (0xFF wraps to 0x00 and arms the 4-tick reload); if it was 0
\* TIMA and the reload countdown are as before.  TMA, TAC and IF are untouched.
C11_DivWrite ==
    [][ WriteTaken("write_div") =>
        LET t == bus.timer
            u == bus'.timer
        IN  /\ u.div = 0
            /\ read_byte(bus', 65284) = 0
            /\ u.tima = (IF t.prev_timer_bit THEN (t.tima + 1) % 256 ELSE t.tima)
            /\ u.overflow_delay = (IF t.prev_timer_bit /\ t.tima = 255
                                   THEN Some(4) ELSE t.overflow_delay)
            /\ ~u.prev_timer_bit
            /\ u.tma = t.tma
            /\ u.tac = t.tac
            /\ bus'.interrupts = bus.interrupts
      ]_vars

\* C11 witness: with no tick at all, a non-zero value written to DIV while the
\* selected bit was 1 wrapped TIMA from 0xFF and armed the reload
C11_Witness ==
    /\ op = "write_div"
    /\ written = Some(167)
    /\ ticks = 0
    /\ bus.timer.div = 0
    /\ bus.timer.tima = 0
    /\ bus.timer.overflow_delay = Some(4)

\* C12: a write of v to TAC (0xFF07) stores v & 7, and the register reads back
\* 0xF8 | (v & 7); the selected bit is re-sampled under the new setting (0 when
\* disabled): TIMA is incremented exactly when the sampled bit was 1 and the new
\* one is 0, arming the reload if it wraps; the counter and TMA are untouched.
C12_TacWrite ==
    [][ WriteTaken("write_tac") =>
        LET t == bus.timer
            u == bus'.timer
            v == written'[1]
            new_bit == SelectedBit(t.div, v % 8) = 1
            falls == t.prev_timer_bit /\ ~new_bit
        IN  /\ u.tac = v % 8
            /\ read_byte(bus', 65287) = 248 + (v % 8)
            /\ u.tima = (IF falls THEN (t.tima + 1) % 256 ELSE t.tima)
            /\ u.overflow_delay = (IF falls /\ t.tima = 255
                                   THEN Some(4) ELSE t.overflow_delay)
            /\ u.prev_timer_bit = new_bit
            /\ u.div = t.div
            /\ u.tma = t.tma
      ]_vars

\* C12 witness: 0xFD was written to TAC; it holds 0b101, bit 3 of the counter
\* was sampled as set, and the TIMA value written earlier is unchanged
C12_Witness ==
    /\ op = "write_tac"
    /\ written = Some(253)
    /\ bus.timer.tac = 5
    /\ bus.timer.prev_timer_bit
    /\ bus.timer.tima = 37

----
\* C13: get_pending_interrupt() returns the source with the lowest bit index
\* among the set bits of IF & IE & 0x1F and None exactly when there is none,
\* which is exactly when any_interrupt_pending() is false.  A request sets its
\* IF bit whatever IE holds: with the IE bit clear it is not pending, and an IE
\* write leaves IF alone, so the latched request is pending once IE enables it.
C13_InterruptPriority ==
    [][ /\ (op' = "get_pending_interrupt" =>
              returned' = Some(IF PendingSet = {} THEN None ELSE Some(HighestPriority)))
        /\ (op' = "any_interrupt_pending" => returned' = Some(PendingSet # {}))
        /\ (op' = "request_interrupt" =>
              LET i == written'[1]
              IN  /\ bus'.interrupts.interrupt_flag = SetBit(IF_, i)
                  /\ bus'.interrupts.interrupt_enable = IE_
                  /\ ((IE_ \div (2 ^ i)) % 2 = 0 => i \notin PendingSet'))
        /\ (op' = "write_ie" =>
              LET v == written'[1]
              IN  /\ bus'.interrupts.interrupt_flag = IF_
                  /\ bus'.interrupts.interrupt_enable = v
                  /\ \A i \in 0..4 :
                        ((IF_ \div (2 ^ i)) % 2 = 1 /\ (v \div (2 ^ i)) % 2 = 1)
                            => i \in PendingSet')
      ]_vars

\* C13 witness: VBlank is latched in IF but not enabled, Timer and Joypad are
\* both pending, and the query returned Timer
C13_Witness ==
    /\ op = "get_pending_interrupt"
    /\ returned = Some(Some(TimerInt))
    /\ IF_ = 245
    /\ IE_ = 20

\* C14: whatever writes, requests, acknowledgements and services came before,
\* IF holds and reads 1 in bits 5-7; a write of v, direct or through 0xFF0F,
\* leaves 0xE0 | (v & 0x1F) and does not touch IE.
C14_IfMasking ==
    [][ /\ bus'.interrupts.interrupt_flag \in 224..255
        /\ read_byte(bus', 65295) = bus'.interrupts.interrupt_flag
        /\ (op' = "read_if" => returned' = Some(224 + (IF_ % 32)))
        /\ (op' = "write_if" =>
              /\ bus'.interrupts.interrupt_flag = 224 + (written'[1] % 32)
              /\ bus'.interrupts.interrupt_enable = IE_)
      ]_vars

\* C14 witness: 0x64 was written to IF, which holds 0xE4
C14_Witness ==
    /\ op = "write_if"
    /\ written = Some(100)
    /\ IF_ = 228
    /\ read_byte(bus, 65295) = 228

\* C15: service_interrupt(source) clears that source's IF bit and no other,
\* leaves IE as it was and returns 0x40 + 8 * source.
C15_ServiceInterrupt ==
    [][ op' = "service_interrupt" =>
        LET i == written'[1]
        IN  /\ bus'.interrupts.interrupt_flag = ClearBit(IF_, i)
            /\ bus'.interrupts.interrupt_enable = IE_
            /\ returned' = Some(64 + 8 * i)
      ]_vars

\* C15 witness: Timer was serviced while VBlank and Joypad stay requested
C15_Witness ==
    /\ op = "service_interrupt"
    /\ written = Some(TimerInt)
    /\ returned = Some(80)
    /\ IF_ = 241
    /\ IE_ = 21

----
\* C16: after every bus write, each echo address e in 0xE000-0xFDFF reads the
\* same as e - 0x2000; a write to an echo address is read back at e - 0x2000,
\* and a write to a work-RAM address w in 0xC000-0xDDFF is read back at
\* w + 0x2000.
C16_EchoRamAliasing ==
    [][ op' = "write_byte" =>
        LET a == written'[1][1]
            v == written'[1][2]
        IN  /\ \A e \in {57344, 57635, 60000, 65023} :
                  read_byte(bus', e) = read_byte(bus', e - 8192)
            /\ (a \in 57344..65023 =>
                  /\ read_byte(bus', a - 8192) = v
                  /\ read_byte(bus', a) = v
                  /\ MemGet(bus'.memory, a - 8192) = v)
            /\ (a \in 49152..56831 =>
                  /\ read_byte(bus', a + 8192) = v
                  /\ read_byte(bus', a) = v)
      ]_vars

\* C16 witness: 0xC2 written at 0xC000 is read at 0xE000, and 0x41 written
\* last at the echo address 0xE123 is read at 0xC123
C16_Witness ==
    /\ op = "write_byte"
    /\ written = Some(<<57635, 65>>)
    /\ read_byte(bus, 49443) = 65
    /\ read_byte(bus, 57344) = 194
    /\ read_byte(bus, 49152) = 194

\* C17: a bus write to a ROM address (0x0000-0x7FFF) or to 0xFEA0-0xFEFF leaves
\* the whole bus as it was: memory, VRAM, LCD registers, timer, interrupt
\* controller and serial output; addresses 0xFEA0-0xFEFF always read 0xFF.
C17_DroppedWrites ==
    [][ op' = "write_byte" =>
        /\ (written'[1][1] \in (0..32767) \cup (65184..65279) => bus' = bus)
        /\ \A u \in {65184, 65200, 65279} : read_byte(bus', u) = 255
        /\ read_byte(bus', 336) = 60
      ]_vars

\* C17 witness: after a write that took effect in high RAM, 0x41 was written
\* at the ROM address 0x0150, which still reads its ROM byte
C17_Witness ==
    /\ op = "write_byte"
    /\ written = Some(<<336, 65>>)
    /\ read_byte(bus, 336) = 60
    /\ read_byte(bus, 65408) = 194
    /\ read_byte(bus, 65184) = 255

\* C18: a write of v to 0xFF02 with bit 7 set appends the byte held at 0xFF01
\* to the output buffer once, and 0xFF02 then reads v & 0x7F; with bit 7 clear
\* the buffer is as before and 0xFF02 reads v.  A write to 0xFF01 stores the
\* byte and leaves the buffer; only clear_serial_output() empties the buffer.
C18_SerialTransfer ==
    [][ /\ (op' = "write_byte" /\ written'[1][1] = 65282 =>
              LET v == written'[1][2]
              IN  /\ bus'.serial_output =
                        (IF v >= 128
                         THEN Append(bus.serial_output, MemGet(bus.memory, 65281))
                         ELSE bus.serial_output)
                  /\ read_byte(bus', 65282) = v % 128
                  /\ read_byte(bus', 65281) = MemGet(bus.memory, 65281))
        /\ (op' = "write_byte" /\ written'[1][1] = 65281 =>
              /\ bus'.serial_output = bus.serial_output
              /\ read_byte(bus', 65281) = written'[1][2]
              /\ read_byte(bus', 65282) = read_byte(bus, 65282))
        /\ (op' = "clear_serial_output" => bus'.serial_output = <<>>)
      ]_vars

\* C18 witness: two transfers sent 0x48 then 0x69, and the control register
\* reads the last written 0x81 with bit 7 cleared
C18_Witness ==
    /\ op = "write_byte"
    /\ written = Some(<<65282, 129>>)
    /\ bus.serial_output = <<72, 105>>
    /\ read_byte(bus, 65282) = 1
    /\ read_byte(bus, 65281) = 105

----
\* Addresses backed by RAM that stores every byte as written: VRAM, external
\* RAM, work RAM, echo RAM, OAM (0x8000-0xFE9F) and high RAM (0xFF80-0xFFFE)
RamBacked(a) == a \in 32768..65183 \/ a \in 65408..65534

\* C19 as stated: for any value and any stack pointer, pop() right after
\* push(x) returns x and leaves SP where it was before the push.
C19_RoundTripAnySp ==
    [][ (op = "push" /\ op' = "pop") =>
        /\ returned' = Some(written[1])
        /\ registers'.sp = (registers.sp + 2) % 65536
      ]_vars

\* C19 amended: push(x) lowers SP by 2 and writes, through the bus, the high
\* byte at SP-1 and then the low byte at SP-2; pop() raises SP by 2 and writes
\* nothing, so pop() right after push(x) leaves SP where it was.  It returns x
\* when SP-1 and SP-2 are both RAM addresses; elsewhere (ROM, unmapped range,
\* I/O registers) the bytes are dropped or altered and pop() returns what the
\* two addresses read.
C19_StackRoundTrip ==
    [][ /\ (op' = "push" =>
              LET x   == written'[1]
                  sp1 == (registers.sp + 65535) % 65536
                  sp2 == (registers.sp + 65534) % 65536
              IN  /\ registers' = [registers EXCEPT !.sp = sp2]
                  /\ bus' = write_byte(write_byte(bus, sp1, x \div 256), sp2, x % 256))
        /\ (op' = "pop" =>
              /\ registers' = [registers EXCEPT !.sp = (registers.sp + 2) % 65536]
              /\ bus' = bus
              /\ returned' = Some(read_byte(bus, registers.sp)
                                  + 256 * read_byte(bus, (registers.sp + 1) % 65536)))
        /\ (op = "push" /\ op' = "pop" /\ RamBacked(registers.sp)
                /\ RamBacked((registers.sp + 1) % 65536)
              => returned' = Some(written[1]))
      ]_vars

\* C19 witness: 0xABCD pushed from SP = 0xFFFE lies high byte at 0xFFFD, low
\* byte at 0xFFFC, and pop() returned it with SP back at 0xFFFE
C19_Witness ==
    /\ op = "pop"
    /\ written = Some(43981)
    /\ returned = Some(43981)
    /\ registers.sp = 65534
    /\ MemGet(bus.memory, 65533) = 171
    /\ MemGet(bus.memory, 65532) = 205
    /\ writes = 2

----
\* C20: from a fresh CPU with ROM bytes 3E 05 C6 03 at 0x0100, the first
\* step() returns 8 cycles and the second returns 8 cycles and leaves A = 0x08,
\* PC = 0x0104, zero, carry and half-carry clear.
C20_TwoInstructionScenario ==
    (/\ read_byte(bus, 256) = 62
     /\ read_byte(bus, 257) = 5
     /\ read_byte(bus, 258) = 198
     /\ read_byte(bus, 259) = 3
     /\ op = "step")
    => /\ (steps = 1 => cycles = 8 /\ registers.a = 5 /\ registers.pc = 258)
       /\ (steps = 2 =>
              /\ ~panicked
              /\ cycles = 8
              /\ registers.a = 8
              /\ registers.pc = 260
              /\ ~registers.f.zero
              /\ ~registers.f.carry
              /\ ~registers.f.half_carry)

----
\* C21: decode_instruction(opcode, false) returns an instruction for every
\* assigned unprefixed opcode and none exactly for the eleven unassigned
\* opcodes 0xD3, 0xDB, 0xDD, 0xE3, 0xE4, 0xEB, 0xEC, 0xED, 0xF4, 0xFC, 0xFD;
\* decode_instruction(opcode, true) returns an instruction for all 256 opcodes.
Unassigned == {211, 219, 221, 227, 228, 235, 236, 237, 244, 252, 253}

C21_DecoderTotality ==
    op = "decode_instruction" =>
        LET byte == written[1][1]
            prefixed == written[1][2]
        IN  IF prefixed
            THEN returned # None
            ELSE (returned = None) <=> (byte \in Unassigned)

----
\* C22: when the byte step() fetches at PC (or, after a 0xCB prefix, the second
\* byte) is rejected by the decoder, step() ends in a fatal error: it returns
\* no cycle count, and PC, the other registers and memory are as they were.
C22_UnassignedOpcodeFatal ==
    [][ (StepTaken
         /\ ~(interrupts_enabled /\ PendingSet # {})
         /\ (~is_halted \/ PendingSet # {})
         /\ LET first_byte == read_byte(bus, registers.pc)
                second_byte == read_byte(bus, (registers.pc + 1) % 65536)
            IN  IF first_byte = 203
                THEN decode_instruction(second_byte, TRUE) = None
                ELSE decode_instruction(first_byte, FALSE) = None)
        => /\ panicked'
           /\ path' = "panic"
           /\ cycles' = 0
           /\ instruction' = None
           /\ registers' = registers
           /\ bus' = bus
           /\ UNCHANGED <<interrupts_enabled, ei_pending, halt_bug>>
      ]_vars

\* C22 witness: after a NOP, the step at 0x0101 met the unassigned opcode 0xD3
C22_Witness ==
    /\ op = "step"
    /\ panicked
    /\ path = "panic"
    /\ steps = 2
    /\ registers.pc = 257
    /\ read_byte(bus, 257) = 211

----
\* The opcode a step() is about to execute, and the 8-bit register its low
\* three bits (or bits 5-3) name

Opcode == read_byte(bus, registers.pc)

Reg8In(r, k) ==
    CASE k = 0 -> r.b
      [] k = 1 -> r.c
      [] k = 2 -> r.d
      [] k = 3 -> r.e
      [] k = 4 -> r.h
      [] k = 5 -> r.l
      [] k = 7 -> r.a

Reg8(k) == Reg8In(registers, k)

Executes(opcodes) == StepTaken /\ path' = "exec" /\ ~halt_bug /\ Opcode \in opcodes

\* C23: for all 8-bit a (accumulator) and b (operand), ADD leaves
\* A = (a + b) mod 256, carry iff a + b > 255, half-carry iff
\* (a & 0xF) + (b & 0xF) > 15, zero iff the result is 0, subtract clear.
C23_AddFlags ==
    [][ Executes({128, 129, 130, 131, 132, 133, 135}) =>
        LET a == registers.a
            b == Reg8(Opcode % 8)
        IN  /\ registers'.a = (a + b) % 256
            /\ registers'.f.carry = (a + b > 255)
            /\ registers'.f.half_carry = ((a % 16) + (b % 16) > 15)
            /\ registers'.f.zero = ((a + b) % 256 = 0)
            /\ registers'.f.subtract = FALSE
      ]_vars

\* C23 witness: ADD A,B with A = 0x0F, B = 0x01 gave 0x10 with half-carry only
C23_Witness ==
    /\ op = "step"
    /\ path = "exec"
    /\ read_byte(bus, 256) = 128
    /\ registers.b = 1
    /\ registers.a = 16
    /\ registers.f = [zero |-> FALSE, subtract |-> FALSE, half_carry |-> TRUE,
                      carry |-> FALSE]

----
\* C24: for all 8-bit a and b, SUB and CP set half-carry iff
\* (a & 0xF) < (b & 0xF), carry iff a < b, zero iff a = b and subtract; SUB
\* leaves A = (a - b) mod 256 while CP leaves A unchanged.
C24_SubCpFlags ==
    [][ Executes({144, 145, 146, 147, 148, 149, 151,
                  184, 185, 186, 187, 188, 189, 191}) =>
        LET a == registers.a
            b == Reg8(Opcode % 8)
        IN  /\ registers'.f.half_carry = ((a % 16) < (b % 16))
            /\ registers'.f.carry = (a < b)
            /\ registers'.f.zero = (a = b)
            /\ registers'.f.subtract = TRUE
            /\ registers'.a = IF Opcode < 152 THEN (a - b + 256) % 256 ELSE a
      ]_vars

\* C24 witness: CP B with A = 0x10, B = 0x9A borrowed at both levels and left
\* A alone
C24_Witness ==
    /\ op = "step"
    /\ path = "exec"
    /\ read_byte(bus, 256) = 184
    /\ registers.b = 154
    /\ registers.a = 16
    /\ registers.f = [zero |-> FALSE, subtract |-> TRUE, half_carry |-> TRUE,
                      carry |-> TRUE]

----
\* C25: for every 8-bit v, 8-bit INC yields (v + 1) mod 256 with zero iff the
\* result is 0, subtract clear, half-carry iff (v & 0xF) = 0xF; 8-bit DEC
\* yields (v - 1) mod 256 with zero iff the result is 0, subtract set,
\* half-carry iff (v & 0xF) = 0; neither changes carry, and 16-bit INC/DEC
\* change no flag at all.
C25_IncDecFlags ==
    [][ /\ Executes({4, 12, 20, 28, 36, 44, 60}) =>
            LET k == (Opcode \div 8) % 8
                v == Reg8(k)
            IN  /\ Reg8In(registers', k) = (v + 1) % 256
                /\ registers'.f.zero = ((v + 1) % 256 = 0)
                /\ registers'.f.subtract = FALSE
                /\ registers'.f.half_carry = (v % 16 = 15)
                /\ registers'.f.carry = registers.f.carry
        /\ Executes({5, 13, 21, 29, 37, 45, 61}) =>
            LET k == (Opcode \div 8) % 8
                v == Reg8(k)
            IN  /\ Reg8In(registers', k) = (v + 255) % 256
                /\ registers'.f.zero = ((v + 255) % 256 = 0)
                /\ registers'.f.subtract = TRUE
                /\ registers'.f.half_carry = (v % 16 = 0)
                /\ registers'.f.carry = registers.f.carry
        /\ Executes({3, 19, 35, 51, 11, 27, 43, 59}) => registers'.f = registers.f
      ]_vars

\* C25 witness: INC B took 0xFF to 0x00 with zero and half-carry set, subtract
\* cleared and carry still clear
C25_Witness ==
    /\ op = "step"
    /\ path = "exec"
    /\ read_byte(bus, 256) = 4
    /\ registers.b = 0
    /\ registers.f = [zero |-> TRUE, subtract |-> FALSE, half_carry |-> TRUE,
                      carry |-> FALSE]

----
\* C26: for all 8-bit a, b and carry-in c in {0, 1}, ADC yields
\* (a + b + c) mod 256 with carry iff a + b + c > 255 and half-carry iff
\* (a & 0xF) + (b & 0xF) + c > 15; SBC yields (a - b - c) mod 256 with carry
\* iff a < b + c and half-carry iff (a & 0xF) < (b & 0xF) + c, the comparisons
\* made without 8-bit wrap-around.
C26_AdcSbcCarryIn ==
    [][ /\ Executes({136, 137, 138, 139, 140, 141, 143}) =>
            LET a == registers.a
                b == Reg8(Opcode % 8)
                c == IF registers.f.carry THEN 1 ELSE 0
            IN  /\ registers'.a = (a + b + c) % 256
                /\ registers'.f.carry = (a + b + c > 255)
                /\ registers'.f.half_carry = ((a % 16) + (b % 16) + c > 15)
        /\ Executes({152, 153, 154, 155, 156, 157, 159}) =>
            LET a == registers.a
                b == Reg8(Opcode % 8)
                c == IF registers.f.carry THEN 1 ELSE 0
            IN  /\ registers'.a = (a - b - c + 512) % 256
                /\ registers'.f.carry = (a < b + c)
                /\ registers'.f.half_carry = ((a % 16) < (b % 16) + c)
      ]_vars

\* C26 witness: SBC A,B with A = 0x00, B = 0x0F and carry set gave 0xF0 with
\* half-carry and carry
C26_Witness ==
    /\ op = "step"
    /\ path = "exec"
    /\ read_byte(bus, 256) = 152
    /\ registers.b = 15
    /\ registers.a = 240
    /\ registers.f.half_carry
    /\ registers.f.carry
    /\ registers.f.subtract

----
\* C27: for every 16-bit SP and immediate byte i, ADD SP,r8 and LD HL,SP+r8
\* compute (SP + sign-extended i) mod 65536, set half-carry iff
\* (SP & 0xF) + (i & 0xF) > 0xF and carry iff (SP & 0xFF) + i > 0xFF with i
\* unsigned, and clear zero and subtract; ADD SP stores the result in SP,
\* LD HL,SP+r8 stores it in HL and leaves SP unchanged.
C27_AddSpFlags ==
    [][ Executes({232, 248}) =>
        LET sp == registers.sp
            i == read_byte(bus, (registers.pc + 1) % 65536)
            extended == IF i >= 128 THEN i - 256 ELSE i
            result == (sp + extended + 65536) % 65536
        IN  /\ registers'.f.half_carry = ((sp % 16) + (i % 16) > 15)
            /\ registers'.f.carry = ((sp % 256) + i > 255)
            /\ registers'.f.zero = FALSE
            /\ registers'.f.subtract = FALSE
            /\ IF Opcode = 232
               THEN registers'.sp = result
               ELSE /\ registers'.h * 256 + registers'.l = result
                    /\ registers'.sp = sp
      ]_vars

\* C27 witness: ADD SP,-1 took SP from 0x0001 to 0x0000 with half-carry and
\* carry both set
C27_Witness ==
    /\ op = "step"
    /\ path = "exec"
    /\ read_byte(bus, 256) = 232
    /\ read_byte(bus, 257) = 255
    /\ registers.sp = 0
    /\ registers.f = [zero |-> FALSE, subtract |-> FALSE, half_carry |-> TRUE,
                      carry |-> TRUE]

----
\* C28: for every accumulator value and every combination of subtract,
\* half-carry and carry, DAA with subtract clear adds 0x06 when half-carry is
\* set or the low nibble exceeds 9 and adds 0x60, setting carry, when carry is
\* set or the accumulator exceeds 0x99; with subtract set it subtracts 0x06
\* when half-carry is set and 0x60 when carry is set, carry unchanged.
\* Afterwards half-carry is clear, zero reflects the result, subtract is
\* unchanged.
C28_DecimalAdjust ==
    [][ Executes({39}) =>
        LET a == registers.a
            f == registers.f
            low == IF f.subtract THEN f.half_carry ELSE f.half_carry \/ (a % 16) > 9
            high == IF f.subtract THEN f.carry ELSE f.carry \/ a > 153
            correction == (IF low THEN 6 ELSE 0) + (IF high THEN 96 ELSE 0)
            result == IF f.subtract THEN (a - correction + 256) % 256
                      ELSE (a + correction) % 256
        IN  /\ registers'.a = result
            /\ registers'.f.carry = (IF f.subtract THEN f.carry ELSE high)
            /\ registers'.f.half_carry = FALSE
            /\ registers'.f.zero = (result = 0)
            /\ registers'.f.subtract = f.subtract
      ]_vars

\* C28 witness: DAA on 0x9A after an addition gave 0x00 with zero and carry
C28_Witness ==
    /\ op = "step"
    /\ path = "exec"
    /\ read_byte(bus, 256) = 39
    /\ registers.a = 0
    /\ registers.f = [zero |-> TRUE, subtract |-> FALSE, half_carry |-> FALSE,
                      carry |-> TRUE]

----
\* C29: a conditional JP/JR/CALL/RET is taken iff its flag test holds (NZ: zero
\* clear, Z: zero set, NC: carry clear, C: carry set) and costs more cycles
\* taken than not (JP 16 / 12, JR 12 / 8, CALL 24 / 12, RET 20 / 8); not
\* taken, PC advances by the instruction's length (3, 2, 3, 1) and SP and
\* memory are unchanged.
C29_ConditionalBranchCost ==
    [][ Executes({194, 202, 210, 218, 32, 40, 48, 56, 196, 204, 212, 220,
                  192, 200, 208, 216}) =>
        LET cc == (Opcode \div 8) % 4
            holds == CASE cc = 0 -> ~registers.f.zero
                       [] cc = 1 -> registers.f.zero
                       [] cc = 2 -> ~registers.f.carry
                       [] cc = 3 -> registers.f.carry
            pc == registers.pc
            sp == registers.sp
            word == read_byte(bus, (pc + 2) % 65536) * 256
                        + read_byte(bus, (pc + 1) % 65536)
            offset == read_byte(bus, (pc + 1) % 65536)
            top == read_byte(bus, (sp + 1) % 65536) * 256 + read_byte(bus, sp)
            length == CASE Opcode \in {194, 202, 210, 218} -> 3
                        [] Opcode \in {32, 40, 48, 56} -> 2
                        [] Opcode \in {196, 204, 212, 220} -> 3
                        [] Opcode \in {192, 200, 208, 216} -> 1
            target == CASE Opcode \in {194, 202, 210, 218} -> word
                        [] Opcode \in {32, 40, 48, 56} ->
                              (pc + 2 + (IF offset >= 128 THEN offset - 256 ELSE offset)
                                  + 65536) % 65536
                        [] Opcode \in {196, 204, 212, 220} -> word
                        [] Opcode \in {192, 200, 208, 216} -> top
            taken == CASE Opcode \in {194, 202, 210, 218} -> 16
                       [] Opcode \in {32, 40, 48, 56} -> 12
                       [] Opcode \in {196, 204, 212, 220} -> 24
                       [] Opcode \in {192, 200, 208, 216} -> 20
            untaken == CASE Opcode \in {194, 202, 210, 218} -> 12
                         [] Opcode \in {32, 40, 48, 56} -> 8
                         [] Opcode \in {196, 204, 212, 220} -> 12
                         [] Opcode \in {192, 200, 208, 216} -> 8
        IN  IF holds
            THEN /\ registers'.pc = target
                 /\ cycles' = taken
                 /\ cycles' > untaken
                 /\ (Opcode \in {196, 204, 212, 220} =>
                        /\ registers'.sp = (sp + 65534) % 65536
                        /\ bus' = write_byte(write_byte(bus, (sp + 65535) % 65536,
                                                        ((pc + 3) % 65536) \div 256),
                                             (sp + 65534) % 65536, (pc + 3) % 256))
                 /\ (Opcode \in {192, 200, 208, 216} =>
                        registers'.sp = (sp + 2) % 65536)
            ELSE /\ registers'.pc = (pc + length) % 65536
                 /\ cycles' = untaken
                 /\ registers'.sp = sp
                 /\ bus' = bus
      ]_vars

\* C29 witness: CALL C with carry set pushed 0x0103 and went to 0xC005 in 24
\* cycles
C29_Witness ==
    /\ op = "step"
    /\ path = "exec"
    /\ read_byte(bus, 256) = 220
    /\ registers.f.carry
    /\ cycles = 24
    /\ registers.pc = 49157
    /\ registers.sp = 53248
    /\ read_byte(bus, 53249) = 1
    /\ read_byte(bus, 53248) = 3

----
----
\* C31: for every 16-bit v, set_bc(v) then get_bc() returns v, likewise DE
\* and HL; set_af(v) then get_af() returns v & 0xFFF0; and in every reachable
\* state the serialized flags byte has a zero low nibble.
C31_PairRoundTrip ==
    /\ [](to_byte(registers.f) % 16 = 0)
    /\ [][ /\ (op' = "set_bc" /\ writes' = writes + 1 => get_bc(registers') = written'[1])
           /\ (op' = "set_de" /\ writes' = writes + 1 => get_de(registers') = written'[1])
           /\ (op' = "set_hl" /\ writes' = writes + 1 => get_hl(registers') = written'[1])
           /\ (op' = "set_af" /\ writes' = writes + 1 =>
                  get_af(registers') = written'[1] - (written'[1] % 16)) ]_vars

\* set_af(0x80FF) has been called: A = 0x80 and every flag is set, AF = 0x80F0
C31_Witness ==
    /\ op = "set_af"
    /\ written = Some(33023)
    /\ registers.a = 128
    /\ to_byte(registers.f) = 240
    /\ get_af(registers) = 33008

----
\* C32: a bus built from a ROM image shorter than the ROM region is built
\* without failure; every ROM address at or beyond the image's length reads
\* 0x00 and every address below it reads the image's byte.
C32_ShortRomImage ==
    [][ op' = "read_byte" /\ written'[1] \in 0..32767 =>
        LET a == written'[1]
            rom == held[1]
        IN  /\ a >= Len(rom) => returned' = Some(0)
            /\ a < Len(rom) => returned' = Some(rom[a + 1]) ]_vars

\* The image 3C FF has been loaded and address 2, the first beyond it, read
C32_Witness ==
    /\ op = "read_byte"
    /\ held = Some(<<60, 255>>)
    /\ written = Some(2)
    /\ returned = Some(0)
    /\ read_byte(bus, 1) = 255

----
\* C33: after an interrupt has been dispatched no later step() dispatches
\* another, whatever IF and IE hold, until an EI or RETI has been executed: a
\* dispatch needs IME and leaves it disabled with no EI outstanding, and IME
\* is enabled by nothing but a step that executes EI or RETI. DI executed in
\* between keeps IME disabled and cancels a not-yet-applied EI.
C33_NoNestedDispatch ==
    [][ /\ (StepTaken /\ path' = "dispatch" =>
               interrupts_enabled /\ ~interrupts_enabled' /\ ~ei_pending')
        /\ (~interrupts_enabled /\ (interrupts_enabled' \/ ei_pending') =>
               /\ StepTaken
               /\ path' = "exec"
               /\ instruction' \in {Some(Ins("EI", <<>>)), Some(Ins("RETI", <<>>))})
        /\ (StepTaken /\ path' = "exec" /\ instruction' = Some(Ins("DI", <<>>)) =>
               ~interrupts_enabled' /\ ~ei_pending') ]_vars

\* Inside the handler of a dispatched interrupt two instructions have been
\* executed, not dispatched, although another enabled source is pending
C33_Witness ==
    /\ op = "step"
    /\ path = "exec"
    /\ instruction = Some(Ins("NOP", <<>>))
    /\ registers.pc = 66
    /\ registers.sp = 65532
    /\ ~interrupts_enabled
    /\ PendingSet # {}

----
----
\* C35: at every step boundary HaltBug and Halted are never both set and
\* HaltBug set implies IME disabled; a set HaltBug is consumed by the very
\* next step(): that step returns neither through interrupt dispatch nor
\* through the halted path, and when it executes it applies the latch.
C35_HaltBugLatch ==
    /\ [](~(halt_bug /\ is_halted) /\ (halt_bug => ~interrupts_enabled))
    /\ [][ StepTaken /\ halt_bug =>
           /\ path' \notin {"dispatch", "halted"}
           /\ (path' = "exec" => halt_bug_active') ]_vars

\* HALT at 0x0100 armed the latch with IME clear and an interrupt pending; the
\* next step() executed the NOP after it one byte back instead of dispatching
C35_Witness ==
    /\ op = "step"
    /\ path = "exec"
    /\ halt_bug_active
    /\ instruction = Some(Ins("NOP", <<>>))
    /\ registers.pc = 257
    /\ ~halt_bug
    /\ ~is_halted
    /\ ~interrupts_enabled
    /\ PendingSet # {}

----
\* The step() after a dispatch made with the stack in writable RAM executes
\* the RETI at the handler address
RetiAfterDispatch ==
    /\ StepTaken
    /\ path = "dispatch"
    /\ held # None
    /\ PlainRam((held[1].sp + 65535) % 65536)
    /\ PlainRam((held[1].sp + 65534) % 65536)
    /\ path' = "exec"
    /\ instruction' = Some(Ins("RETI", <<>>))

\* C36 as stated: if an interrupt is dispatched while PC = p with the stack in
\* writable RAM and the instruction at the handler address is RETI, then
\* after the RETI step PC = p, SP has its value from before the dispatch, IME
\* is enabled and the serviced source's IF bit is still clear.
C36_DispatchRetiRoundTrip ==
    [][ RetiAfterDispatch =>
        /\ registers'.pc = held[1].pc
        /\ registers'.sp = held[1].sp
        /\ interrupts_enabled'
        /\ BitAnd(bus'.interrupts.interrupt_flag, bit_mask(held[1].source)) = 0 ]_vars

\* C36 amended: the dispatch clears the serviced source's IF bit, and the
\* RETI step restores PC = p and SP, enables IME and leaves IF as it finds
\* it: the bit is clear after RETI unless the source was requested again
\* during the ticks between the dispatch and the RETI step.
C36_RoundTripKeepsIF ==
    [][ /\ (StepTaken /\ path' = "dispatch" =>
               /\ held' # None
               /\ BitAnd(bus'.interrupts.interrupt_flag, bit_mask(held'[1].source)) = 0
               /\ BitAnd(IF_, bit_mask(held'[1].source)) # 0)
        /\ (RetiAfterDispatch =>
               /\ registers'.pc = held[1].pc
               /\ registers'.sp = held[1].sp
               /\ interrupts_enabled'
               /\ bus'.interrupts = bus.interrupts) ]_vars

\* The timer interrupt was dispatched from 0x0102 and RETI has returned
\* there, while the timer, reloaded with 0xFF, requested its interrupt again
C36_Witness ==
    /\ op = "step"
    /\ path = "exec"
    /\ instruction = Some(Ins("RETI", <<>>))
    /\ held # None
    /\ held[1].source = TimerInt
    /\ registers.pc = held[1].pc
    /\ registers.sp = held[1].sp
    /\ interrupts_enabled
    /\ BitAnd(IF_, 4) # 0

----
\* C37: for every PC, 0xFFFE and 0xFFFF included, step() on a decodable
\* opcode computes the address of the CB second byte and of the immediate
\* operands (PC+1, PC+2) modulo 2^16 and completes without an arithmetic
\* overflow failure: it ends as the step computed with wrapping addresses.
C37_AddressArithmeticWraps ==
    [][ StepTaken /\ CPU_step(Cpu).path = "exec" =>
        /\ path' = "exec"
        /\ registers' = CPU_step(Cpu).cpu.registers
        /\ bus' = CPU_step(Cpu).cpu.bus ]_vars

----
\* C38: in any interleaving of ticks and writes to DIV, TIMA, TMA and TAC,
\* whenever a tick returns true, TIMA equals TMA immediately after that tick.
\* (The statement as claimed.)
C38_ReloadValueOnInterruptTick ==
    [][ TickTaken /\ interrupt' => bus'.timer.tima = bus'.timer.tma ]_vars

\* C38 (amended): a tick that returns true reloads TIMA from TMA and then
\* evaluates the falling edge of the selected bit in the same tick. Without a
\* falling edge on that tick TIMA equals TMA after it; with one, TIMA is
\* TMA + 1 modulo 256 (0 with the countdown armed again when TMA is 0xFF).
C38_ReloadThenEdge ==
    [][ TickTaken /\ interrupt' =>
        LET fell == bus.timer.prev_timer_bit /\ ~bus'.timer.prev_timer_bit
        IN  /\ ~fell => bus'.timer.tima = bus'.timer.tma
            /\ fell  => /\ bus'.timer.tima = (bus'.timer.tma + 1) % 256
                        /\ bus'.timer.tma = 255 =>
                               bus'.timer.overflow_delay = Some(4) ]_vars

\* A tick has returned true and the same tick incremented the reloaded TIMA
C38_Witness ==
    /\ op = "tick_timer"
    /\ interrupt
    /\ bus.timer.tima = bus.timer.tma + 1
    /\ ~bus.timer.prev_timer_bit

----
\* C39: after any sequence of ticks and register writes, the reload countdown
\* is either absent or a value in 1..4 (never 0, so its decrement never goes
\* below zero), and the stored control register is at most 7.
C39_TimerStateBounds ==
    /\ \/ bus.timer.overflow_delay = None
       \/ /\ Len(bus.timer.overflow_delay) = 1
          /\ bus.timer.overflow_delay[1] \in 1..4
    /\ bus.timer.tac \in 0..7

\* The countdown has been decremented by ticks down to its last value, 1,
\* with the timer enabled at 262144 Hz and the overflowed TIMA still 0
C39_Witness ==
    /\ op = "tick_timer"
    /\ bus.timer.overflow_delay = Some(1)
    /\ bus.timer.tac = 5
    /\ bus.timer.tima = 0

====
